---- MODULE Spec2Model ----
(***************************************************************************)
(* db_sorcerer: the ingestion pipeline (watcher -> preprocessor ->         *)
(* postprocessor -> vector index), the access oracle, the retriever's      *)
(* search and the message mailbox, as one state machine.                   *)
(*                                                                         *)
(* Text is a sequence of one-character strings, so that find, strip and    *)
(* slicing are computed the way the Python code computes them.  A path is  *)
(* the sequence of its '/'-separated segments.                             *)
(***************************************************************************)
EXTENDS Integers, Sequences, FiniteSets, Bags, TLC

VARIABLES
    folder_structure,   \* DummyAuthDB.folder_structure: folder -> list of file names
    repo_head,          \* the watcher's git HEAD: path -> committed text, or NoFile
    clock,              \* time.time() of the watcher, as a counter
    watcher_push,       \* ZeroMQ PUSH/PULL channel watcher -> preprocessor (FIFO)
    pre_push,           \* ZeroMQ PUSH/PULL channel preprocessor -> postprocessor (FIFO)
    post,               \* FilePostprocessor: position, current message, loop locals
    collection,         \* the Chroma collection "sentences": a bag of rows
    processed,          \* history: path -> timestamp of the last event start() took up
    search,             \* one FileRetriever.search_chunks call in progress
    mailbox_clock,      \* time.time() of the mailbox, as a counter
    user_messages,      \* MessageDB.user_messages: user -> list of message_data
    post_log,           \* history: the posts the mailbox accepted, in order
    fetched,            \* the last answer of GET /messages/<user_id>
    chunker,            \* one call of a chunking function: arguments, locals and result
    rpc,                \* the request-reply sockets: requests, socket states, replies
    access,             \* one get_authorized_paths call in progress, beside the observer thread
    agent,              \* one RAGAgent.process call: position and loop locals
    scratch             \* the preprocessor's scratch files and the threads that extract

\* The components beside the ingestion pipeline, the search and the mailbox
services == <<chunker, rpc, access, agent, scratch>>

\* The pipeline's, the search's and the mailbox's variables, the folder table aside
ingest == <<repo_head, clock, watcher_push, pre_push, post, collection, processed, search,
            mailbox_clock, user_messages, post_log, fetched>>

vars == <<folder_structure, ingest, services>>

-----------------------------------------------------------------------------
(* Bounds *)

MaxEvents == 2      \* file events the watcher transmits in one run
MaxPosts == 2       \* posts the mailbox receives in one run
TopN == 1           \* top_n of a search_chunks call

(* Program constants *)

chunk_size == 1000  \* _chunk_content: self._split_with_overlap(content, 1000, 200)
overlap == 200

-----------------------------------------------------------------------------
(* Text helpers: Python str operations on sequences of characters *)

\* Python None, and a file absent from disk: sequences, so that they compare with texts
None == <<"None">>
NoFile == <<"NoFile">>

Min(a, b) == IF a < b THEN a ELSE b

Max(a, b) == IF a > b THEN a ELSE b

IsSpace(ch) == ch \in {" ", "\n"}

\* s[a:b] for 0 <= a, b (0-based, half-open)
Slice(s, a, b) == SubSeq(s, a + 1, Min(b, Len(s)))

RECURSIVE LStrip(_)
LStrip(s) == IF s # <<>> /\ IsSpace(Head(s)) THEN LStrip(Tail(s)) ELSE s

RECURSIVE RStrip(_)
RStrip(s) ==
    IF s # <<>> /\ IsSpace(s[Len(s)]) THEN RStrip(SubSeq(s, 1, Len(s) - 1)) ELSE s

\* str.strip()
Strip(s) == RStrip(LStrip(s))

\* sub occurs in s at 0-based position i
OccursAt(s, sub, i) == /\ i + Len(sub) <= Len(s)
                       /\ SubSeq(s, i + 1, i + Len(sub)) = sub

\* str.find(sub, start): the lowest position >= start, or -1
Find(s, sub, start) ==
    LET hits == {i \in start..Len(s) : OccursAt(s, sub, i)}
    IN  IF hits = {} THEN -1 ELSE CHOOSE i \in hits : \A j \in hits : i <= j

\* len(s.split()): the number of whitespace-separated words
WordCount(s) ==
    Cardinality({i \in 1..Len(s) :
                    /\ ~IsSpace(s[i])
                    /\ (i = 1 \/ IsSpace(s[i - 1]))})

\* str.split('\n'): the lines of a text
RECURSIVE SplitLines(_)
SplitLines(s) ==
    LET nl == Find(s, <<"\n">>, 0)
    IN  IF nl = -1 THEN <<s>>
        ELSE <<Slice(s, 0, nl)>> \o SplitLines(Slice(s, nl + 1, Len(s)))

-----------------------------------------------------------------------------
(* FilePostprocessor: LLM-guided chunking *)

\* The loop of _split_with_overlap, from window start `start`
RECURSIVE SplitWithOverlapFrom(_, _, _, _)
SplitWithOverlapFrom(content, size, ovl, start) ==
    IF ~(start < Len(content)) THEN <<>>
    ELSE LET end == Min(start + size, Len(content))
         IN  IF end >= Len(content) THEN <<Slice(content, start, end)>>
             ELSE <<Slice(content, start, end)>>
                      \o SplitWithOverlapFrom(content, size, ovl, end - ovl)

_split_with_overlap(content, size, ovl) == SplitWithOverlapFrom(content, size, ovl, 0)

\* _extract_end_sentences on the LLM's answer: the stripped non-blank lines.
\* An answer of None is LLM_small raising: the except branch returns [].
_extract_end_sentences(response) ==
    IF response = None THEN <<>>
    ELSE LET lines == SplitLines(response)
         IN  SelectSeq([i \in 1..Len(lines) |-> Strip(lines[i])], LAMBDA l : l # <<>>)

\* A chunk record whose char_start is always 0 (not the code's: the chunk
\* order claim must fail with it)
chunk_from_start(idx, text, cs, ce, ws, we) ==
    [chunk_index |-> idx, text |-> text, char_start |-> 0, char_end |-> ce,
     word_start |-> ws, word_end |-> we]

\* The dict of one chunk
Chunk(idx, text, cs, ce, ws, we) ==
    [chunk_index |-> idx, text |-> text, char_start |-> cs, char_end |-> ce,
     word_start |-> ws, word_end |-> we]

\* The for loop of _split_by_end_sentences from candidate k on, with its locals
RECURSIVE SplitLoop(_, _, _, _, _, _)
SplitLoop(content, end_sentences, k, chunks, last_end, chunk_index) ==
    IF k > Len(end_sentences)
    THEN [chunks |-> chunks, last_end |-> last_end, chunk_index |-> chunk_index]
    ELSE LET end_sentence == end_sentences[k]
             end_pos == Find(content, end_sentence, last_end)
             actual_end == end_pos + Len(end_sentence)
             chunk_text == Strip(Slice(content, last_end, actual_end))
         IN  IF end_pos = -1 \/ chunk_text = <<>>
             THEN SplitLoop(content, end_sentences, k + 1, chunks, last_end, chunk_index)
             ELSE SplitLoop(content, end_sentences, k + 1,
                            Append(chunks,
                                   Chunk(chunk_index, chunk_text, last_end, actual_end,
                                         WordCount(Slice(content, 0, last_end)),
                                         WordCount(Slice(content, 0, actual_end)) - 1)),
                            actual_end, chunk_index + 1)

_split_by_end_sentences(content, end_sentences) ==
    IF end_sentences = <<>>
    THEN <<Chunk(0, content, 0, Len(content), 0, WordCount(content) - 1)>>
    ELSE LET r == SplitLoop(content, end_sentences, 1, <<>>, 0, 0)
             remaining_text == Strip(Slice(content, r.last_end, Len(content)))
         IN  IF r.last_end < Len(content) /\ remaining_text # <<>>
             THEN Append(r.chunks,
                         Chunk(r.chunk_index, remaining_text, r.last_end, Len(content),
                               WordCount(Slice(content, 0, r.last_end)),
                               WordCount(content) - 1))
             ELSE r.chunks

RECURSIVE Concat(_)
Concat(ss) == IF ss = <<>> THEN <<>> ELSE Head(ss) \o Concat(Tail(ss))

\* _chunk_content; responses[i] is the LLM's answer for the i-th window.
\* Returns the final chunks (the code splits them into texts and offsets).
_chunk_content(content, responses) ==
    IF content = <<>> \/ Strip(content) = <<>> THEN <<>>
    ELSE LET pre_chunks == _split_with_overlap(content, chunk_size, overlap)
             all_end_sentences ==
                 Concat([i \in 1..Len(pre_chunks) |-> _extract_end_sentences(responses[i])])
         IN  _split_by_end_sentences(content, all_end_sentences)

-----------------------------------------------------------------------------
(* The world the components run in *)

Users == {"guest", "admin"}

\* getpass.getuser() of the watcher process: the ingest principal
IngestUser == "admin"

Path(folder, name) == <<folder, name>>

Paths == {Path("pub", "a.txt"), Path("sec", "b.txt")}

TextAB == <<"a", ".", " ", "b">>
TextABC == <<"a", ".", " ", "b", " ", "c">>

\* Texts a watched .txt file may hold
Contents == {TextAB, TextABC}

\* Answers of the small LLM to the boundary prompt (None: the call raises)
LLMAnswers == {None, <<"a", ".">>, <<" ", "b", "\n">>}

EventTypes == {"create", "update", "delete"}

-----------------------------------------------------------------------------
(* DummyAuthDB: the access oracle's tables *)

folder_permissions(user_id) ==
    CASE user_id = "guest" -> <<"pub">>
      [] user_id = "admin" -> <<"sec", "pub">>
      [] OTHER -> <<>>

\* get_folder_liked_users
get_folder_liked_users(folder_name) ==
    CASE folder_name = "pub" -> <<"guest", "admin">>
      [] folder_name = "sec" -> <<"admin">>
      [] OTHER -> <<>>

InitFolderStructure == [f \in {"pub", "sec"} |->
                           IF f = "pub" THEN <<<<"a.txt">>>> ELSE <<<<"b.txt">>>>]

InSeq(x, seq) == \E i \in 1..Len(seq) : seq[i] = x

\* list.pop(0): drops the first element whatever it is (not the code's: the
\* create-delete round trip must fail with it)
PopFirst(seq, x) == Tail(seq)

\* list.remove(x): drops the first occurrence
RemoveFirst(seq, x) ==
    LET i == CHOOSE j \in 1..Len(seq) : seq[j] = x /\ \A k \in 1..(j - 1) : seq[k] # x
    IN  SubSeq(seq, 1, i - 1) \o SubSeq(seq, i + 1, Len(seq))

\* get_authorized_paths over a folder table fs
get_authorized_paths(fs, user_id) ==
    LET allowed_folders == folder_permissions(user_id)
    IN  Concat([i \in 1..Len(allowed_folders) |->
                   IF allowed_folders[i] \in DOMAIN fs
                   THEN [j \in 1..Len(fs[allowed_folders[i]]) |->
                            <<allowed_folders[i]>> \o fs[allowed_folders[i]][j]]
                   ELSE <<>>])

\* An add that appends without looking (not the code's: idempotence and the
\* create-delete round trip must fail with it)
add_file_always(fs, folder_name, filename) ==
    IF folder_name \in DOMAIN fs
    THEN [fs EXCEPT ![folder_name] = Append(@, filename)]
    ELSE fs

add_file_to_folder(fs, folder_name, filename) ==
    IF folder_name \in DOMAIN fs /\ ~InSeq(filename, fs[folder_name])
    THEN [fs EXCEPT ![folder_name] = Append(@, filename)]
    ELSE fs

remove_file_from_folder(fs, folder_name, filename) ==
    IF folder_name \in DOMAIN fs /\ InSeq(filename, fs[folder_name])
    THEN [fs EXCEPT ![folder_name] = RemoveFirst(@, filename)]
    ELSE fs

\* update_file_structure: file_path.split('/', 1) is <<Head, Tail>> of the segments
update_file_structure(fs, file_path, operation) ==
    IF Len(file_path) < 2 THEN fs
    ELSE CASE operation = "create" -> add_file_to_folder(fs, Head(file_path), Tail(file_path))
           [] operation = "delete" -> remove_file_from_folder(fs, Head(file_path), Tail(file_path))
           [] OTHER -> fs

-----------------------------------------------------------------------------
(* ZeroMQ PUSH/PULL with one peer at each end: a FIFO *)

\* A socket that hands the newest message over first (not the code's: the
\* order claim must fail with it)
send_json_newest_first(channel, message) == <<message>> \o channel

send_json(channel, message) == Append(channel, message)

\* A receive that hands over the newest message (not the code's: the
\* forwarded document must then belong to another event than the one taken)
recv_newest(channel) == channel[Len(channel)]

recv_json(channel) == Head(channel)

-----------------------------------------------------------------------------
(* FileWatcher (STORAGEside/oracle.py) *)

NoDiff == [type |-> "None", diff |-> None]

\* _get_file_diff: git diff HEAD against the working copy `disk`
_get_file_diff(head, disk) ==
    IF head # NoFile /\ disk # head
    THEN [type |-> "modification", diff |-> <<head, disk>>]
    ELSE IF head = NoFile /\ disk # NoFile
    THEN [type |-> "new_file", diff |-> <<NoFile, disk>>]
    ELSE NoDiff

\* _commit_file_change can succeed: there is something git can add or remove
CanCommit(head, event_type, disk) ==
    IF event_type = "delete" THEN head # NoFile ELSE disk # NoFile

\* A commit that records a removal whatever the event (not the code's: the
\* committed flag must then disagree with the repository)
CommittedRemoval(event_type, disk) == NoFile

\* The HEAD of a path after a successful _commit_file_change
Committed(event_type, disk) == IF event_type = "delete" THEN NoFile ELSE disk

\* The message _send_file builds
WatcherMessage(event_type, file_path, disk, readable, diff_info, commit_success, now) ==
    [event_type |-> event_type,
     user_id |-> IngestUser,
     file_path |-> file_path,
     liked_users |-> get_folder_liked_users(Head(file_path)),
     git_committed |-> commit_success,
     timestamp |-> now,
     file_content |-> IF event_type # "delete" /\ readable THEN disk ELSE None,
     diff_type |-> diff_info.type,
     diff_content |-> diff_info.diff]

\* _send_file: diff (updates), commit, then the push.  disk is the file as the
\* handler finds it; diff_ok, git_ok and readable are whether git diff, git
\* commit and open() work.
_send_file(file_path, event_type, disk, diff_ok, git_ok, readable) ==
    LET diff_info == IF event_type = "update" /\ diff_ok
                     THEN _get_file_diff(repo_head[file_path], disk) ELSE NoDiff
        commit_success == git_ok /\ CanCommit(repo_head[file_path], event_type, disk)
    IN  /\ repo_head' = IF commit_success
                        THEN [repo_head EXCEPT ![file_path] = Committed(event_type, disk)]
                        ELSE repo_head
        /\ IF event_type # "delete" /\ disk = NoFile
           THEN UNCHANGED <<watcher_push, clock>>
           ELSE /\ watcher_push' = send_json(watcher_push,
                                             WatcherMessage(event_type, file_path, disk, readable,
                                                            diff_info, commit_success, clock))
                /\ clock' = clock + 1

\* Handler.on_created
on_created(file_path, disk, git_ok, readable) ==
    /\ clock < MaxEvents
    /\ folder_structure' = update_file_structure(folder_structure, file_path, "create")
    /\ _send_file(file_path, "create", disk, FALSE, git_ok, readable)
    /\ UNCHANGED <<services, pre_push, post, collection, processed, search, mailbox_clock,
                   user_messages, post_log, fetched>>

\* Handler.on_modified
on_modified(file_path, disk, diff_ok, git_ok, readable) ==
    /\ clock < MaxEvents
    /\ _send_file(file_path, "update", disk, diff_ok, git_ok, readable)
    /\ UNCHANGED <<services, folder_structure, pre_push, post, collection, processed, search,
                   mailbox_clock, user_messages, post_log, fetched>>

\* Handler.on_deleted
on_deleted(file_path, disk, git_ok) ==
    /\ clock < MaxEvents
    /\ folder_structure' = update_file_structure(folder_structure, file_path, "delete")
    /\ _send_file(file_path, "delete", disk, FALSE, git_ok, FALSE)
    /\ UNCHANGED <<services, pre_push, post, collection, processed, search, mailbox_clock,
                   user_messages, post_log, fetched>>

-----------------------------------------------------------------------------
(* FilePreprocessor (file_preprocessor.py) *)

Truthy(text) == text # None /\ text # <<>>

\* _extract_file_content: with encoded content, read_file on a scratch copy
\* (the text of a .txt file, or None when read_file raises); without it the
\* relative path is looked up in the preprocessor's own directory, where it
\* is absent.
_extract_file_content(encoded_content, extract_ok) ==
    IF Truthy(encoded_content) /\ extract_ok THEN encoded_content ELSE None

\* The processed_message _process_file_change builds
_process_file_change(message, extract_ok) ==
    LET extracted_content == _extract_file_content(message.file_content, extract_ok)
        is_update == message.event_type = "update" /\ Truthy(extracted_content)
    IN  [event_type |-> message.event_type,
         file_path |-> message.file_path,
         user_id |-> message.user_id,
         timestamp |-> message.timestamp,
         content |-> IF message.event_type = "delete" \/ ~Truthy(extracted_content)
                     THEN None ELSE extracted_content,
         status |-> IF message.event_type = "delete" THEN "deleted"
                    ELSE IF Truthy(extracted_content) THEN "processed"
                    ELSE "extraction_failed",
         diff_type |-> IF is_update THEN message.diff_type ELSE "None",
         diff_content |-> IF is_update THEN message.diff_content ELSE None]

\* One round of _listen_file_changes: receive, process, push downstream
_listen_file_changes(extract_ok) ==
    /\ watcher_push # <<>>
    /\ pre_push' = send_json(pre_push, _process_file_change(recv_json(watcher_push), extract_ok))
    /\ watcher_push' = Tail(watcher_push)
    /\ UNCHANGED <<services, folder_structure, repo_head, clock, post, collection, processed, search,
                   mailbox_clock, user_messages, post_log, fetched>>

-----------------------------------------------------------------------------
(* db.py: the Chroma collection, a bag of rows with unique ids *)

\* f"{file_path}_{start_idx}_{end_idx}"
doc_id(file_path, start_idx, end_idx) == <<file_path, start_idx, end_idx>>

Row(file_path, start_idx, end_idx, embedding) ==
    [id |-> doc_id(file_path, start_idx, end_idx),
     embedding |-> embedding,
     metadata |-> [file_path |-> file_path, start_idx |-> start_idx, end_idx |-> end_idx]]

\* An add that stores the row whether or not its id is stored already (not
\* the code's: the idempotence claim must fail with it)
create_data_duplicating(coll, file_path, start_idx, end_idx, embedding) ==
    coll (+) SetToBag({Row(file_path, start_idx, end_idx, embedding)})

\* create_data: collection.add, which leaves a row whose id is already stored
create_data(coll, file_path, start_idx, end_idx, embedding) ==
    IF \E r \in BagToSet(coll) : r.id = doc_id(file_path, start_idx, end_idx)
    THEN coll
    ELSE coll (+) SetToBag({Row(file_path, start_idx, end_idx, embedding)})

\* A delete that removes only the path's row starting at offset 0 (not the
\* code's: the delete claim must fail with it)
delete_data_first_row(coll, file_path) ==
    LET keep == {r \in BagToSet(coll) :
                    r.metadata.file_path # file_path \/ r.metadata.start_idx # 0}
    IN  [r \in keep |-> coll[r]]

\* delete_data: collection.delete(where={"file_path": file_path})
delete_data(coll, file_path) ==
    LET keep == {r \in BagToSet(coll) : r.metadata.file_path # file_path}
    IN  [r \in keep |-> coll[r]]

\* A query without the where filter (not the code's: the access claim must
\* fail with it)
search_data_unfiltered(coll, pathlist) ==
    IF pathlist # <<>> THEN BagToSet(coll) ELSE {}

\* The rows collection.query may return under where file_path $in pathlist
search_data(coll, pathlist) ==
    IF pathlist # <<>>
    THEN {r \in BagToSet(coll) : InSeq(r.metadata.file_path, pathlist)}
    ELSE {}

\* The rows of one path, as a bag
RowsOf(coll, file_path) ==
    LET own == {r \in BagToSet(coll) : r.metadata.file_path = file_path}
    IN  [r \in own |-> coll[r]]

-----------------------------------------------------------------------------
(* FilePostprocessor (file_postprocessor.py) *)

NoMessage == [event_type |-> "None"]

\* The embedding service's answer to Embedding(chunks) when it returns n
\* vectors: the vector of a text is identified with the text it encodes.
Embedding(chunks, n) == [i \in 1..n |-> IF i <= Len(chunks) THEN chunks[i] ELSE <<>>]

\* _process_content: zip(embedding_vectors, chunks) with the offsets
_process_content(final_chunks, embedding_vectors) ==
    [i \in 1..Min(Len(embedding_vectors), Len(final_chunks)) |->
        [embedding |-> embedding_vectors[i],
         text |-> final_chunks[i].text,
         offset |-> [chunk_index |-> final_chunks[i].chunk_index,
                     char_start |-> final_chunks[i].char_start,
                     char_end |-> final_chunks[i].char_end,
                     word_start |-> final_chunks[i].word_start,
                     word_end |-> final_chunks[i].word_end]]]

\* The numbers of vectors the embedding service may return for n texts
VectorCounts(n) == {k \in {n - 1, n, n + 1} : k >= 0}

\* The windows _chunk_content sends to the LLM
Windows(content) ==
    IF Truthy(content) /\ Strip(content) # <<>>
    THEN _split_with_overlap(content, chunk_size, overlap) ELSE <<>>

\* The postprocessor after an exception left process_message: start() does
\* not catch it, the process ends.  cause: the call that raised
Crashed(message, before, cause) ==
    [pc |-> "crashed", message |-> message, n_chunks |-> 0, embeddings |-> <<>>, i |-> 0,
     success_count |-> 0, before |-> before, cause |-> cause]

\* process_message returned.  The handler's locals are kept for reference:
\* message, len(chunks), embeddings, success_count, and before, the rows the
\* path had when the message was received
Returned(message, n_chunks, embeddings, success_count, before) ==
    [pc |-> "idle", message |-> message, n_chunks |-> n_chunks, embeddings |-> embeddings,
     i |-> Len(embeddings), success_count |-> success_count, before |-> before]

\* Entering the loop of _upload_embeddings
Uploading(message, n_chunks, embeddings, before) ==
    [pc |-> "upload", message |-> message, n_chunks |-> n_chunks, embeddings |-> embeddings,
     i |-> 0, success_count |-> 0, before |-> before]

\* _chunk_content and _process_content of a handler: the postprocessor's next
\* position, given the LLM's answers and the embedding service's behaviour
\* (embed_ok: it answers; n_vectors: with that many vectors)
ChunkAndEmbed(message, before, responses, embed_ok, n_vectors) ==
    LET final_chunks == _chunk_content(message.content, responses)
        texts == [k \in 1..Len(final_chunks) |-> final_chunks[k].text]
        embeddings == _process_content(final_chunks, Embedding(texts, n_vectors))
    IN  IF ~embed_ok THEN Crashed(message, before, "Embedding")
        ELSE Uploading(message, Len(final_chunks), embeddings, before)

\* start() receives a create: handle_create up to the upload loop
handle_create(responses, embed_ok, n_vectors) ==
    LET message == recv_json(pre_push)
        before == RowsOf(collection, message.file_path)
    IN  /\ post.pc = "idle"
        /\ pre_push # <<>>
        /\ message.event_type = "create"
        /\ pre_push' = Tail(pre_push)
        /\ post' = IF Truthy(message.content)
                   THEN ChunkAndEmbed(message, before, responses, embed_ok, n_vectors)
                   ELSE Returned(message, 0, <<>>, 0, before)
        /\ processed' = [processed EXCEPT ![message.file_path] = message.timestamp]
        /\ UNCHANGED <<services, folder_structure, repo_head, clock, watcher_push, collection,
                       search, mailbox_clock, user_messages, post_log, fetched>>

\* start() receives an update: handle_update up to the upload loop.
\* delete_ok: the collection accepts the delete; summary_ok: LLM_small on the
\* diff returns.
handle_update(delete_ok, summary_ok, responses, embed_ok, n_vectors) ==
    LET message == recv_json(pre_push)
        before == RowsOf(collection, message.file_path)
    IN  /\ post.pc = "idle"
        /\ pre_push # <<>>
        /\ message.event_type = "update"
        /\ pre_push' = Tail(pre_push)
        /\ collection' = IF delete_ok THEN delete_data(collection, message.file_path)
                         ELSE collection
        /\ processed' = [processed EXCEPT ![message.file_path] = message.timestamp]
        /\ post' = IF ~delete_ok THEN Crashed(message, before, "delete_data")
                   ELSE IF Truthy(message.diff_content) /\ ~summary_ok
                   THEN Crashed(message, before, "LLM_small")
                   ELSE IF Truthy(message.content)
                   THEN ChunkAndEmbed(message, before, responses, embed_ok, n_vectors)
                   ELSE Returned(message, 0, <<>>, 0, before)
        /\ UNCHANGED <<services, folder_structure, repo_head, clock, watcher_push, search,
                       mailbox_clock, user_messages, post_log, fetched>>

\* start() receives a delete: handle_delete
handle_delete(delete_ok) ==
    LET message == recv_json(pre_push)
        before == RowsOf(collection, message.file_path)
    IN  /\ post.pc = "idle"
        /\ pre_push # <<>>
        /\ message.event_type = "delete"
        /\ pre_push' = Tail(pre_push)
        /\ collection' = IF delete_ok THEN delete_data(collection, message.file_path)
                         ELSE collection
        /\ processed' = [processed EXCEPT ![message.file_path] = message.timestamp]
        /\ post' = IF delete_ok THEN Returned(message, 0, <<>>, 0, before)
                   ELSE Crashed(message, before, "delete_data")
        /\ UNCHANGED <<services, folder_structure, repo_head, clock, watcher_push, search,
                       mailbox_clock, user_messages, post_log, fetched>>

\* One round of the loop of _upload_embeddings: create_data in its try/except
_upload_embeddings(accepted) ==
    LET embedding_data == post.embeddings[post.i + 1]
        file_path == post.message.file_path
    IN  /\ post.pc = "upload"
        /\ post.i < Len(post.embeddings)
        /\ collection' = IF accepted
                         THEN create_data(collection, file_path,
                                          embedding_data.offset.char_start,
                                          embedding_data.offset.char_end,
                                          embedding_data.embedding)
                         ELSE collection
        /\ post' = [post EXCEPT !.i = @ + 1,
                                !.success_count = IF accepted THEN @ + 1 ELSE @]
        /\ UNCHANGED <<services, folder_structure, repo_head, clock, watcher_push, pre_push, processed,
                       search, mailbox_clock, user_messages, post_log, fetched>>

\* After the upload loop: _summarize for a create (LLM_small may raise), then
\* the handler and process_message return
FinishHandler(summary_ok) ==
    /\ post.pc = "upload"
    /\ post.i = Len(post.embeddings)
    /\ post' = IF post.message.event_type = "create" /\ ~summary_ok
               THEN Crashed(post.message, post.before, "LLM_small")
               ELSE Returned(post.message, post.n_chunks, post.embeddings, post.success_count,
                             post.before)
    /\ UNCHANGED <<services, folder_structure, repo_head, clock, watcher_push, pre_push, collection,
                   processed, search, mailbox_clock, user_messages, post_log, fetched>>

-----------------------------------------------------------------------------
(* FileRetriever.search_chunks (RAGside/retriever.py) *)

\* os.path.basename
basename(file_path) == file_path[Len(file_path)]

\* search_chunks returned `result`
SearchReturned(user_id, pathlist, result) ==
    [pc |-> "idle", user_id |-> user_id, pathlist |-> pathlist, result |-> result]

\* A search that goes on to the index with whatever allow-list it got (not
\* the code's: the fail-closed claim must fail with it)
search_chunks_open(user_id, embed_ok, oracle_ok) ==
    LET pathlist == IF oracle_ok THEN get_authorized_paths(folder_structure, user_id)
                    ELSE <<>>
    IN  /\ search.pc = "idle"
        /\ search' = IF ~embed_ok THEN SearchReturned(user_id, <<>>, {})
                     ELSE [pc |-> "query", user_id |-> user_id, pathlist |-> pathlist,
                           result |-> {}]
        /\ UNCHANGED <<services, folder_structure, repo_head, clock, watcher_push, pre_push, post,
                       collection, processed, mailbox_clock, user_messages, post_log, fetched>>

\* Steps 1 and 2 of search_chunks: the query embedding, then the allow-list
\* from the oracle (_get_user_accessible_files: [] on timeout or error)
search_chunks(user_id, embed_ok, oracle_ok) ==
    LET pathlist == IF oracle_ok THEN get_authorized_paths(folder_structure, user_id)
                    ELSE <<>>
    IN  /\ search.pc = "idle"
        /\ search' = IF ~embed_ok THEN SearchReturned(user_id, <<>>, {})
                     ELSE IF pathlist = <<>> THEN SearchReturned(user_id, pathlist, {})
                     ELSE [pc |-> "query", user_id |-> user_id, pathlist |-> pathlist,
                           result |-> {}]
        /\ UNCHANGED <<services, folder_structure, repo_head, clock, watcher_push, pre_push, post,
                       collection, processed, mailbox_clock, user_messages, post_log, fetched>>

\* The answer search_chunks gives when nothing was found
NoDocuments == {[text |-> <<"no documents">>, file_name |-> "", file_path |-> <<>>]}

\* _extract_chunk_text: the slice of the text the preprocessor extracts from
\* the file as it is on disk now (None when the fetch fails or yields nothing)
_extract_chunk_text(disk_text, start_pos, end_pos) ==
    IF Truthy(disk_text) /\ disk_text # NoFile THEN Slice(disk_text, start_pos, end_pos)
    ELSE None

\* Step 4: chunk_data, the hits whose text could be fetched
ChunkData(similar_chunks, disk) ==
    {[text |-> _extract_chunk_text(disk[c.file_path], c.start_idx, c.end_idx),
      file_name |-> basename(c.file_path),
      file_path |-> c.file_path] :
        c \in {h \in similar_chunks :
                  Truthy(_extract_chunk_text(disk[h.file_path], h.start_idx, h.end_idx))}}

\* Steps 3 to 5.  _search_similar_chunks: n_results = top_n * 2 rows of the
\* allowed paths (which ones is the similarity ranking's choice; [] when the
\* query raises); then the texts, read from the files as they are on disk;
\* then the reranker's selection of at most top_n of them (or, when it fails,
\* the first top_n).  The index is read once, so the three steps are one
\* step here.  The file_path of a returned item is kept for reference; the
\* code returns text and file_name.
_search_similar_chunks(db_ok, picked, disk, selected) ==
    LET matching == search_data(collection, search.pathlist)
        similar_chunks == {r.metadata : r \in picked}
    IN  /\ search.pc = "query"
        /\ picked \subseteq matching
        /\ Cardinality(picked) = Min(TopN * 2, Cardinality(matching))
        /\ selected \subseteq ChunkData(similar_chunks, disk)
        /\ Cardinality(selected) <= TopN
        /\ search' = IF ~db_ok \/ picked = {}
                     THEN SearchReturned(search.user_id, search.pathlist, NoDocuments)
                     ELSE SearchReturned(search.user_id, search.pathlist, selected)
        /\ UNCHANGED <<services, folder_structure, repo_head, clock, watcher_push, pre_push, post,
                       collection, processed, mailbox_clock, user_messages, post_log, fetched>>

-----------------------------------------------------------------------------
(* MessageDB (RAGside/messagedb.py) *)

Payloads == {"m1", "m2"}

\* Lists of users a post may name: no user twice
UserLists == {<<>>, <<"guest">>, <<"admin">>, <<"guest", "admin">>, <<"admin", "guest">>}

\* dict.get(key, [])
GetList(d, key) == IF key \in DOMAIN d THEN d[key] ELSE <<>>

\* A mailbox that puts a new message in front of each user's list (not the
\* code's: the FIFO claim must fail with it)
RECURSIVE add_message_to_users_in_front(_, _, _)
add_message_to_users_in_front(um, user_list, message_data) ==
    IF user_list = <<>> THEN um
    ELSE LET user_id == Head(user_list)
             inserted == [u \in DOMAIN um \cup {user_id} |->
                             IF u = user_id THEN <<message_data>> \o GetList(um, u)
                             ELSE um[u]]
         IN  add_message_to_users_in_front(inserted, Tail(user_list), message_data)

\* add_message_to_users: defaultdict(list)[user_id].append(message_data) for
\* each user of the list
RECURSIVE add_message_to_users(_, _, _)
add_message_to_users(um, user_list, message_data) ==
    IF user_list = <<>> THEN um
    ELSE LET user_id == Head(user_list)
             appended == [u \in DOMAIN um \cup {user_id} |->
                             IF u = user_id THEN Append(GetList(um, u), message_data)
                             ELSE um[u]]
         IN  add_message_to_users(appended, Tail(user_list), message_data)

\* get_user_messages
get_user_messages(um, user_id) == GetList(um, user_id)

\* One request on the mailbox's REP socket (start_zmq_server).  The appends
\* to the users' lists are one step: a fetch reads one user's list, and for
\* that list the request is a single list.append
Post(user_list, message) ==
    /\ mailbox_clock < MaxPosts
    /\ IF user_list # <<>> /\ message # ""
       THEN /\ user_messages' = add_message_to_users(user_messages, user_list,
                                    [message |-> message, timestamp |-> mailbox_clock])
            /\ post_log' = Append(post_log, [user_list |-> user_list, message |-> message])
            /\ mailbox_clock' = mailbox_clock + 1
       ELSE UNCHANGED <<user_messages, post_log, mailbox_clock>>
    /\ UNCHANGED <<services, folder_structure, repo_head, clock, watcher_push, pre_push, post,
                   collection, processed, search, fetched>>

\* GET /messages/<user_id>; `at` notes how many posts had been accepted
Fetch(user_id) ==
    /\ fetched' = [user_id |-> user_id,
                   messages |-> get_user_messages(user_messages, user_id),
                   at |-> Len(post_log)]
    /\ user_messages' = user_messages
    /\ UNCHANGED <<services, folder_structure, repo_head, clock, watcher_push, pre_push, post,
                   collection, processed, search, mailbox_clock, post_log>>

-----------------------------------------------------------------------------
(* _split_by_end_sentences called on its own *)

MaxLen == 4          \* characters of a content
MaxCandidates == 2   \* candidate sentences of a call

Alphabet == {"a", ".", " "}

\* The texts of at most n characters
RECURSIVE Texts(_)
Texts(n) ==
    IF n = 0 THEN {<<>>}
    ELSE Texts(n - 1) \cup {Append(t, c) : t \in Texts(n - 1), c \in Alphabet}

\* Candidate sentences: found or not, blank, empty
CandidateSentences == {<<>>, <<" ">>, <<"a">>, <<"a", ".">>, <<".", " ">>}

\* The lists of at most n candidates
RECURSIVE CandidateLists(_)
CandidateLists(n) ==
    IF n = 0 THEN {<<>>}
    ELSE CandidateLists(n - 1)
            \cup {Append(l, c) : l \in CandidateLists(n - 1), c \in CandidateSentences}

ChunkerIdle ==
    chunker = [pc |-> "idle", content |-> <<>>, end_sentences |-> <<>>, chunks |-> <<>>]

\* A call with its arguments, before the body runs
ChunkerCalled ==
    chunker \in [pc : {"called"}, content : Texts(MaxLen),
                 end_sentences : CandidateLists(MaxCandidates), chunks : {<<>>}]

\* The body of _split_by_end_sentences
split_by_end_sentences ==
    /\ chunker.pc = "called"
    /\ chunker' = [chunker EXCEPT
                      !.pc = "returned",
                      !.chunks = _split_by_end_sentences(chunker.content,
                                                         chunker.end_sentences)]
    /\ UNCHANGED <<folder_structure, ingest, rpc, access, agent, scratch>>

-----------------------------------------------------------------------------
(* llm_guided_sentence_chunk (FileProcessor/text_chunker.py): the chunking
   variant in which the LLM answers with sentence indices *)

max_sentences_per_chunk == 20

\* re.split(r"(?<=[\.!\?])\s+", line) of a stripped line
RECURSIVE SplitAfterTerminators(_)
SplitAfterTerminators(line) ==
    LET cuts == {i \in 1..(Len(line) - 1) : line[i] \in {".", "!", "?"} /\ IsSpace(line[i + 1])}
        i == CHOOSE c \in cuts : \A d \in cuts : c <= d
    IN  IF cuts = {} THEN <<line>>
        ELSE <<SubSeq(line, 1, i)>>
                 \o SplitAfterTerminators(LStrip(SubSeq(line, i + 1, Len(line))))

\* split_sentences_ko_en: the lines, then the parts of each line, stripped,
\* the empty ones dropped
split_sentences_ko_en(text) ==
    LET lines == SplitLines(text)
        parts(line) == IF Strip(line) = <<>> THEN <<>>
                       ELSE SplitAfterTerminators(Strip(line))
        all == Concat([k \in 1..Len(lines) |-> parts(lines[k])])
    IN  IF Strip(text) = <<>> THEN <<>>
        ELSE SelectSeq([k \in 1..Len(all) |-> Strip(all[k])], LAMBDA p : p # <<>>)

\* build_sentence_char_spans, from sentence k on with the cursor
RECURSIVE build_sentence_char_spans(_, _, _, _)
build_sentence_char_spans(text, sentences, k, cursor) ==
    IF k > Len(sentences) THEN <<>>
    ELSE LET s_stripped == Strip(sentences[k])
             m == Find(text, s_stripped, cursor)
             start == IF m = -1 THEN cursor ELSE m
             end == IF m = -1 THEN Min(Len(text), start + Len(s_stripped))
                    ELSE m + Len(s_stripped)
         IN  IF s_stripped = <<>>
             THEN <<<<cursor, cursor>>>> \o build_sentence_char_spans(text, sentences, k + 1, cursor)
             ELSE <<<<start, end>>>> \o build_sentence_char_spans(text, sentences, k + 1, end)

\* The plans _safe_parse_json can hand over: the items of "chunks", each with
\* its two indices; the empty plan is also what an unparsable answer gives
PlanItems == [first_sentence_index : 0..1, last_sentence_index : 0..1]

Plans == {<<>>} \cup {<<c>> : c \in PlanItems} \cup {<<c, d>> : c, d \in PlanItems}

\* Some reported index is 1 or more (not the code's: the 1-based detection
\* claim must fail with it)
any_index_positive(items) ==
    \E j \in 1..Len(items) :
        items[j].first_sentence_index >= 1 \/ items[j].last_sentence_index >= 1

\* The 1-based heuristic of _chunks_from_plan: min(fs + ls) >= 1
minus_one(items) ==
    \A j \in 1..Len(items) :
        items[j].first_sentence_index >= 1 /\ items[j].last_sentence_index >= 1

\* The two sentence indices _chunks_from_plan dereferences for item k: shifted,
\* clamped, and swapped when reversed
SentenceRange(items, n_sents, k) ==
    LET a0 == items[k].first_sentence_index - (IF minus_one(items) THEN 1 ELSE 0)
        b0 == items[k].last_sentence_index - (IF minus_one(items) THEN 1 ELSE 0)
        a1 == Max(0, Min(a0, n_sents - 1))
        b1 == Max(0, Min(b0, n_sents - 1))
    IN  <<Min(a1, b1), Max(a1, b1)>>

\* The loop of _chunks_from_plan from item k on
RECURSIVE ChunksFromItems(_, _, _, _, _, _)
ChunksFromItems(text, n_sents, sent_spans, items, k, chunks) ==
    IF k > Len(items) THEN chunks
    ELSE LET a == SentenceRange(items, n_sents, k)[1]
             b == SentenceRange(items, n_sents, k)[2]
             cs == sent_spans[a + 1][1]
             ce == sent_spans[b + 1][2]
             slice_text == Slice(text, cs, ce)
             ws == WordCount(Slice(text, 0, cs))
             we == IF WordCount(slice_text) > 0 THEN ws + WordCount(slice_text) - 1 ELSE ws
         IN  IF ce <= cs \/ Strip(slice_text) = <<>>
             THEN ChunksFromItems(text, n_sents, sent_spans, items, k + 1, chunks)
             ELSE ChunksFromItems(text, n_sents, sent_spans, items, k + 1,
                                  Append(chunks, Chunk(Len(chunks), slice_text, cs, ce, ws, we)))

_chunks_from_plan(text, sents, sent_spans, plan) ==
    IF plan = <<>> THEN <<>>
    ELSE ChunksFromItems(text, Len(sents), sent_spans, plan, 1, <<>>)

\* Groups of max_per_chunk sentences with no floor and no cap (not the
\* code's: the group size claim must fail with it)
RECURSIVE fallback_unclamped(_, _, _, _, _)
fallback_unclamped(text, sents, sent_spans, max_per_chunk, i) ==
    LET step == Max(1, max_per_chunk)
        b == Min(i + step - 1, Len(sents) - 1)
        cs == sent_spans[i + 1][1]
        ce == sent_spans[b + 1][2]
    IN  IF ~(i < Len(sents)) THEN <<>>
        ELSE <<Chunk(i \div step, Slice(text, cs, ce), cs, ce, 0, 0)>>
                 \o fallback_unclamped(text, sents, sent_spans, max_per_chunk, i + step)

\* The loop of _fallback_rule_based_chunks from sentence i on (0-based)
RECURSIVE _fallback_rule_based_chunks(_, _, _, _, _)
_fallback_rule_based_chunks(text, sents, sent_spans, max_per_chunk, i) ==
    LET step == Max(3, Min(10, max_per_chunk))
        b == Min(i + step - 1, Len(sents) - 1)
        cs == sent_spans[i + 1][1]
        ce == sent_spans[b + 1][2]
        slice_text == Slice(text, cs, ce)
        ws == WordCount(Slice(text, 0, cs))
        we == IF Strip(slice_text) # <<>> THEN ws + WordCount(slice_text) - 1 ELSE ws
    IN  IF ~(i < Len(sents)) THEN <<>>
        ELSE <<Chunk(i \div step, slice_text, cs, ce, ws, we)>>
                 \o _fallback_rule_based_chunks(text, sents, sent_spans, max_per_chunk, i + step)

\* A call of llm_guided_sentence_chunk with its arguments, before the body
SentenceChunkCalled ==
    chunker \in [pc : {"called"}, text : Texts(MaxLen), retry_on_fail : BOOLEAN,
                 fallback_on_fail : BOOLEAN, yielded : {<<>>}, chunks : {<<>>},
                 used_strategy : {""}]

\* Steps 4 and 5 and the return, for the chunks the last plan gave
SentenceChunkReturn(chunks, used_strategy) ==
    LET text == chunker.text
        sents == split_sentences_ko_en(text)
        sent_spans == build_sentence_char_spans(text, sents, 1, 0)
        fallback == chunks = <<>> /\ chunker.fallback_on_fail
        final == IF fallback
                 THEN _fallback_rule_based_chunks(text, sents, sent_spans,
                                                  Max(6, Min(10, max_sentences_per_chunk)), 0)
                 ELSE chunks
        strategy == IF fallback THEN "fallback_rule" ELSE used_strategy
    IN  [pc |-> "returned",
         chunks |-> IF final = <<>>
                    THEN <<Chunk(0, text, 0, Len(text), 0, Max(0, WordCount(text) - 1))>>
                    ELSE final,
         used_strategy |-> IF final = <<>> THEN strategy \o "_forced_single" ELSE strategy]

\* A first try that is always followed by the repair reprompt (not the
\* code's: the reprompt must then follow a usable plan too)
always_reprompt(plan) ==
    LET sents == split_sentences_ko_en(chunker.text)
        sent_spans == build_sentence_char_spans(chunker.text, sents, 1, 0)
    IN  /\ chunker.pc = "called"
        /\ chunker' =
             IF sents = <<>>
             THEN [chunker EXCEPT !.pc = "returned", !.used_strategy = "empty_text"]
             ELSE [chunker EXCEPT
                      !.pc = "retry",
                      !.yielded = <<_chunks_from_plan(chunker.text, sents, sent_spans, plan)>>]
        /\ UNCHANGED <<folder_structure, ingest, rpc, access, agent, scratch>>

\* llm_guided_sentence_chunk up to and including the first answer of the LLM
\* (plan: what _safe_parse_json makes of it) and, unless the repair reprompt
\* is due, to the return
llm_guided_sentence_chunk(plan) ==
    LET text == chunker.text
        sents == split_sentences_ko_en(text)
        sent_spans == build_sentence_char_spans(text, sents, 1, 0)
        chunks == _chunks_from_plan(text, sents, sent_spans, plan)
        r == SentenceChunkReturn(chunks, "llm")
    IN  /\ chunker.pc = "called"
        /\ chunker' =
             IF Strip(text) = <<>>
             THEN [chunker EXCEPT !.pc = "returned", !.used_strategy = "empty_text"]
             ELSE IF sents = <<>>
             THEN [chunker EXCEPT !.pc = "returned", !.used_strategy = "no_sentence_detected",
                                  !.chunks = <<Chunk(0, text, 0, Len(text), 0,
                                                     Max(0, WordCount(text) - 1))>>]
             ELSE IF chunks = <<>> /\ chunker.retry_on_fail
             THEN [chunker EXCEPT !.pc = "retry", !.yielded = <<chunks>>]
             ELSE [chunker EXCEPT !.pc = r.pc, !.yielded = <<chunks>>, !.chunks = r.chunks,
                                  !.used_strategy = r.used_strategy]
        /\ UNCHANGED <<folder_structure, ingest, rpc, access, agent, scratch>>

\* The repair reprompt, its answer, and the rest of the function
repair_reprompt(plan) ==
    LET text == chunker.text
        sents == split_sentences_ko_en(text)
        sent_spans == build_sentence_char_spans(text, sents, 1, 0)
        chunks == _chunks_from_plan(text, sents, sent_spans, plan)
        r == SentenceChunkReturn(chunks, IF chunks # <<>> THEN "llm_retry" ELSE "llm")
    IN  /\ chunker.pc = "retry"
        /\ chunker' = [chunker EXCEPT !.pc = r.pc, !.yielded = Append(@, chunks),
                                      !.chunks = r.chunks, !.used_strategy = r.used_strategy]
        /\ UNCHANGED <<folder_structure, ingest, rpc, access, agent, scratch>>

(* _split_with_overlap called on its own, one pass of its while loop at a
   time *)

MaxWindow == 3       \* the largest chunk_size of a call

\* A call with its arguments (chunk_size > overlap >= 0) and its locals
\* before the loop
WindowsCalled ==
    /\ chunker \in [pc : {"while"}, content : Texts(MaxLen), chunk_size : 1..MaxWindow,
                     overlap : 0..(MaxWindow - 1), start : {0}, chunks : {<<>>}]
    /\ chunker.chunk_size > chunker.overlap

\* A pass whose next window starts where this one ends (not the code's: the
\* stride claim must fail with it)
split_without_overlap ==
    LET end == Min(chunker.start + chunker.chunk_size, Len(chunker.content))
    IN  /\ chunker.pc = "while"
        /\ chunker' =
             IF ~(chunker.start < Len(chunker.content))
             THEN [chunker EXCEPT !.pc = "returned"]
             ELSE [chunker EXCEPT
                      !.pc = IF end >= Len(chunker.content) THEN "returned" ELSE "while",
                      !.chunks = Append(@, Slice(chunker.content, chunker.start, end)),
                      !.start = end]
        /\ UNCHANGED <<folder_structure, ingest, rpc, access, agent, scratch>>

\* One evaluation of the while condition and, if it holds, one pass of the body
split_with_overlap ==
    LET content == chunker.content
        start == chunker.start
        end == Min(start + chunker.chunk_size, Len(content))
    IN  /\ chunker.pc = "while"
        /\ chunker' =
             IF ~(start < Len(content))
             THEN [chunker EXCEPT !.pc = "returned"]
             ELSE IF end >= Len(content)
             THEN [chunker EXCEPT !.pc = "returned",
                                  !.chunks = Append(@, Slice(content, start, end))]
             ELSE [chunker EXCEPT !.chunks = Append(@, Slice(content, start, end)),
                                  !.start = end - chunker.overlap]
        /\ UNCHANGED <<folder_structure, ingest, rpc, access, agent, scratch>>

(* _chunks_from_plan called on its own, as llm_guided_sentence_chunk calls
   it: with the sentences of a text that has some *)

\* The integers an LLM reports as indices: below 0, 0-based, 1-based, beyond
\* the last sentence
ReportedIndices == -1..2

ReportedPlans ==
    LET items == [first_sentence_index : ReportedIndices, last_sentence_index : ReportedIndices]
    IN  {<<c>> : c \in items} \cup {<<c, d>> : c, d \in items}

PlanCalled ==
    /\ chunker \in [pc : {"called"}, text : Texts(MaxLen), plan : ReportedPlans,
                     dereferenced : {<<>>}, chunks : {<<>>}]
    /\ split_sentences_ko_en(chunker.text) # <<>>

\* The body of _chunks_from_plan, with the sentence indices it dereferences
chunks_from_plan ==
    LET text == chunker.text
        sents == split_sentences_ko_en(text)
        sent_spans == build_sentence_char_spans(text, sents, 1, 0)
    IN  /\ chunker.pc = "called"
        /\ chunker' = [chunker EXCEPT
                          !.pc = "returned",
                          !.dereferenced = [k \in 1..Len(chunker.plan) |->
                                               SentenceRange(chunker.plan, Len(sents), k)],
                          !.chunks = _chunks_from_plan(text, sents, sent_spans, chunker.plan)]
        /\ UNCHANGED <<folder_structure, ingest, rpc, access, agent, scratch>>

(* _fallback_rule_based_chunks called on its own *)

MaxFallbackLen == 7   \* characters of a text given to the rule-based chunker

\* Group sizes below the floor, at it, between, the default, above the cap
GroupSizes == {1, 3, 4, 8, 11}

FallbackCalled ==
    chunker \in [pc : {"called"}, text : Texts(MaxFallbackLen),
                 max_sentences_per_chunk : GroupSizes, chunks : {<<>>}]

\* The body of _fallback_rule_based_chunks on the sentences of the text
fallback_rule_based_chunks ==
    LET text == chunker.text
        sents == split_sentences_ko_en(text)
        sent_spans == build_sentence_char_spans(text, sents, 1, 0)
    IN  /\ chunker.pc = "called"
        /\ chunker' = [chunker EXCEPT
                          !.pc = "returned",
                          !.chunks = _fallback_rule_based_chunks(
                                         text, sents, sent_spans,
                                         chunker.max_sentences_per_chunk, 0)]
        /\ UNCHANGED <<folder_structure, ingest, rpc, access, agent, scratch>>

-----------------------------------------------------------------------------
(* The request-reply sockets: the watcher's authorization REP and raw-file
   ROUTER (STORAGEside/oracle.py), the preprocessor's extracted-text REP
   (file_preprocessor.py) *)

MaxRequests == 2     \* requests the clients send in one run

Channels == {"access", "router", "text"}

Clients == {"c1", "c2"}

\* self.watch_folder, and the files on the watcher's disk: one inside the
\* watched root, one with an extension outside the allow-list, one beside
\* the root
watch_folder == <<"srv", "watch">>

DiskFiles == {<<"srv", "watch", "pub", "a.txt">>, <<"srv", "watch", "pub", "a.exe">>,
              <<"srv", "secret.txt">>}

allowed_extensions == {".docx", ".pdf", ".hwp", ".txt"}

\* _is_target_file; ext is os.path.splitext of the file's name
_is_target_file(file_path) ==
    LET name == file_path[Len(file_path)]
        ext == CASE name \in {"a.txt", "none.txt", "secret.txt"} -> ".txt"
                 [] name = "a.exe" -> ".exe"
                 [] OTHER -> ""
    IN  ext \in allowed_extensions

\* The file the operating system opens for a path: '..' steps to the parent
RECURSIVE Resolve(_, _)
Resolve(done, rest) ==
    IF rest = <<>> THEN done
    ELSE IF Head(rest) = ".."
    THEN Resolve(IF done = <<>> THEN <<>> ELSE SubSeq(done, 1, Len(done) - 1), Tail(rest))
    ELSE Resolve(Append(done, Head(rest)), Tail(rest))

\* base is a prefix of path, segment by segment (what Path.relative_to needs)
IsUnder(path, base) == Len(path) >= Len(base) /\ SubSeq(path, 1, Len(base)) = base

\* The file_path strings a request may carry: is_absolute and the segments
RequestPaths ==
    {[absolute |-> FALSE, parts |-> <<"pub", "a.txt">>],
     [absolute |-> FALSE, parts |-> <<"pub", "none.txt">>],
     [absolute |-> FALSE, parts |-> <<"pub", "a.exe">>],
     [absolute |-> FALSE, parts |-> <<"..", "secret.txt">>],
     [absolute |-> TRUE, parts |-> <<"srv", "secret.txt">>],
     [absolute |-> TRUE, parts |-> <<"srv", "watch", "pub", "a.txt">>]}

\* Request bodies: a JSON object with the field, one without it, and a JSON
\* array (valid JSON that is not an object)
FileBodies ==
    {[kind |-> "object", has_field |-> TRUE, file_path |-> fp] : fp \in RequestPaths}
        \cup {[kind |-> "object", has_field |-> FALSE], [kind |-> "array", has_field |-> FALSE]}

AccessBodies ==
    {[kind |-> "object", has_field |-> TRUE, user_id |-> u] : u \in Users}
        \cup {[kind |-> "object", has_field |-> FALSE], [kind |-> "array", has_field |-> FALSE]}

\* A reply; served is the file whose bytes it carries
Reply(status, served) == [status |-> status, served |-> served]

ErrorReply == Reply("error", <<>>)

\* Reply("none", <<>>) stands for a request that got no reply

\* _process_file_request
_process_file_request(request_data) ==
    IF request_data.kind # "object" \/ ~request_data.has_field THEN ErrorReply
    ELSE LET requested_path == request_data.file_path
             outside == requested_path.absolute /\ ~IsUnder(requested_path.parts, watch_folder)
             relative == IF requested_path.absolute
                         THEN SubSeq(requested_path.parts, Len(watch_folder) + 1,
                                     Len(requested_path.parts))
                         ELSE requested_path.parts
             full_path == watch_folder \o relative
             opened == Resolve(<<>>, full_path)
         IN  IF outside THEN ErrorReply
             ELSE IF opened \notin DiskFiles THEN ErrorReply
             ELSE IF ~_is_target_file(full_path) THEN ErrorReply
             ELSE Reply("success", opened)

\* One round of _handle_access_request_rep: request.get raises for a body
\* that is not an object, the loop's except prints, nothing is sent
_handle_access_request_rep(request) ==
    IF request.kind # "object" THEN Reply("none", <<>>)
    ELSE IF request.has_field THEN Reply("success", <<>>)
    ELSE ErrorReply

\* One round of _handle_file_request of the preprocessor; watcher_answers:
\* the watcher replies within 5 s; extract_ok: read_file works
_handle_file_request(request, watcher_answers, extract_ok) ==
    IF request.kind # "object" \/ ~request.has_field THEN ErrorReply
    ELSE LET watcher_response == IF watcher_answers THEN _process_file_request(request)
                                 ELSE ErrorReply
         IN  IF watcher_response.status = "success" /\ extract_ok
             THEN Reply("success", watcher_response.served)
             ELSE ErrorReply

RpcIdle ==
    rpc = [inbox |-> [c \in Channels |-> <<>>],
           awaiting_send |-> [c \in Channels |-> FALSE],
           sent |-> 0,
           log |-> <<>>]

\* A client sends a request
Request(channel, client, body) ==
    /\ rpc.sent < MaxRequests
    /\ rpc' = [rpc EXCEPT !.inbox[channel] = Append(@, [client |-> client, body |-> body]),
                          !.sent = @ + 1]
    /\ UNCHANGED <<folder_structure, ingest, chunker, access, agent, scratch>>

\* One round of a server loop: receive the oldest request, handle it, send
\* the reply.  A REP socket that received and did not send receives nothing
\* more; the ROUTER socket has no such state.
Serve(channel, watcher_answers, extract_ok) ==
    LET request == Head(rpc.inbox[channel])
        reply == CASE channel = "access" -> _handle_access_request_rep(request.body)
                   [] channel = "router" -> _process_file_request(request.body)
                   [] OTHER -> _handle_file_request(request.body, watcher_answers, extract_ok)
    IN  /\ rpc.inbox[channel] # <<>>
        /\ ~rpc.awaiting_send[channel]
        /\ rpc' = [rpc EXCEPT
                      !.inbox[channel] = Tail(@),
                      !.awaiting_send[channel] = (reply.status = "none" /\ channel # "router"),
                      !.log = Append(@, [channel |-> channel, client |-> request.client,
                                         body |-> request.body, reply |-> reply,
                                         to |-> IF reply.status = "none" THEN "nobody"
                                                ELSE request.client])]
        /\ UNCHANGED <<folder_structure, ingest, chunker, access, agent, scratch>>

-----------------------------------------------------------------------------
(* The persistent REQ sockets: req_socket of the preprocessor, connected to
   the watcher (file_preprocessor.py), and socket of the retriever, connected
   to the preprocessor (RAGside/retriever.py).  A ZeroMQ REQ socket sends and
   receives in strict alternation: send raises ZMQError (EFSM) while the reply
   to the last request has not been received. *)

ReqSockets == {"req_socket", "socket"}

ReqIdle ==
    rpc = [state |-> [sk \in ReqSockets |-> "ready"], log |-> <<>>]

\* send_json, poll(5000) and recv_json on a REQ socket, as both request
\* functions do them inside their try block; peer_answers: a reply arrives
\* within the timeout.  The outcome and the state the socket is left in.
ReqExchange(state, peer_answers) ==
    IF state = "awaiting_reply" THEN [outcome |-> "send_raised", state |-> state]
    ELSE IF peer_answers THEN [outcome |-> "answered", state |-> "ready"]
    ELSE [outcome |-> "timeout", state |-> "awaiting_reply"]

\* One call on a REQ socket: _request_file_from_watcher on req_socket,
\* get_file_content on socket
ReqCall(sk, file_path, peer_answers) ==
    LET x == ReqExchange(rpc.state[sk], peer_answers)
    IN  /\ Len(rpc.log) < MaxRequests + 1
        /\ rpc' = [rpc EXCEPT
                      !.state[sk] = x.state,
                      !.log = Append(@, [socket |-> sk, file_path |-> file_path,
                                         peer_answers |-> peer_answers,
                                         outcome |-> x.outcome])]
        /\ UNCHANGED <<folder_structure, ingest, chunker, access, agent, scratch>>

_request_file_from_watcher(file_path, peer_answers) ==
    ReqCall("req_socket", file_path, peer_answers)

get_file_content(file_path, peer_answers) == ReqCall("socket", file_path, peer_answers)

-----------------------------------------------------------------------------
(* _extract_file_content with base64 content (file_preprocessor.py), run by
   the two threads start() creates: change_thread for the events of the
   watcher, request_thread for the on-demand requests.  The scratch file is
   temp_<int(time.time())>_<basename> in the working directory. *)

MaxSeconds == 1      \* the seconds the clock of the preprocessor advances in a run

Threads == {"change_thread", "request_thread"}

\* temp_path: the second and os.path.basename(file_path)
TempPath(now, file_path) == <<now, file_path[Len(file_path)]>>

TempPaths == {TempPath(t, p) : t \in 0..MaxSeconds, p \in Paths}

\* No scratch file under a path (else: the thread whose content it holds),
\* and a thread outside _extract_file_content
NoScratch == [creator |-> ""]

ThreadIdle == [pc |-> "idle", temp_path |-> <<>>, content |-> "", removed |-> "",
               returned |-> ""]

ScratchIdle ==
    scratch = [now |-> 0,
               files |-> [tp \in TempPaths |-> NoScratch],
               threads |-> [t \in Threads |-> ThreadIdle]]

\* time.time() moves on to the next second
Tick ==
    /\ scratch.now < MaxSeconds
    /\ scratch' = [scratch EXCEPT !.now = @ + 1]
    /\ UNCHANGED <<folder_structure, ingest, chunker, rpc, access, agent>>

\* The thread enters _extract_file_content for file_path, with content: it
\* decodes the content and names its scratch file
extract_name(t, file_path) ==
    /\ scratch.threads[t].pc \in {"idle", "done"}
    /\ scratch' = [scratch EXCEPT
                      !.threads[t] = [ThreadIdle EXCEPT
                                         !.pc = "named",
                                         !.temp_path = TempPath(scratch.now, file_path)]]
    /\ UNCHANGED <<folder_structure, ingest, chunker, rpc, access, agent>>

\* with open(temp_path, 'wb') as f: f.write(decoded_content)
extract_write(t) ==
    LET tp == scratch.threads[t].temp_path
    IN  /\ scratch.threads[t].pc = "named"
        /\ scratch' = [scratch EXCEPT !.threads[t].pc = "written",
                                      !.files[tp] = [creator |-> t]]
        /\ UNCHANGED <<folder_structure, ingest, chunker, rpc, access, agent>>

\* content = read_file(temp_path): the text of whatever file is there now,
\* FileNotFoundError if none is, or an error of the extraction itself
extract_read(t, extract_ok) ==
    LET tp == scratch.threads[t].temp_path
        file == scratch.files[tp]
    IN  /\ scratch.threads[t].pc = "written"
        /\ scratch' =
             IF file.creator = "" \/ ~extract_ok
             THEN [scratch EXCEPT !.threads[t].pc = "finally",
                                  !.threads[t].returned = "None"]
             ELSE [scratch EXCEPT !.threads[t].pc = "finally",
                                  !.threads[t].content = file.creator,
                                  !.threads[t].returned = "content"]
        /\ UNCHANGED <<folder_structure, ingest, chunker, rpc, access, agent>>

\* finally: if os.path.exists(temp_path)
extract_exists(t) ==
    LET tp == scratch.threads[t].temp_path
    IN  /\ scratch.threads[t].pc = "finally"
        /\ scratch' = [scratch EXCEPT
                          !.threads[t].pc = IF scratch.files[tp].creator = "" THEN "done"
                                            ELSE "remove"]
        /\ UNCHANGED <<folder_structure, ingest, chunker, rpc, access, agent>>

\* os.remove(temp_path); FileNotFoundError reaches the outer except clause,
\* which returns None
extract_remove(t) ==
    LET tp == scratch.threads[t].temp_path
    IN  /\ scratch.threads[t].pc = "remove"
        /\ scratch' =
             IF scratch.files[tp].creator = ""
             THEN [scratch EXCEPT !.threads[t].pc = "done", !.threads[t].returned = "None"]
             ELSE [scratch EXCEPT !.threads[t].pc = "done",
                                  !.threads[t].removed = scratch.files[tp].creator,
                                  !.files[tp] = NoScratch]
        /\ UNCHANGED <<folder_structure, ingest, chunker, rpc, access, agent>>

-----------------------------------------------------------------------------
(* DummyAuthDB shared by two threads: the access server runs
   get_authorized_paths while the filesystem observer's handlers run
   update_file_structure (STORAGEside/accessDB.py, no lock) *)

MaxUpdates == 2      \* updates the observer thread applies in one run

FileNames == {<<"a.txt">>, <<"b.txt">>}

\* The lists a folder can hold: add_file_to_folder never appends a name twice
FolderLists ==
    {<<>>} \cup {<<n>> : n \in FileNames}
           \cup {<<n, m>> : <<n, m>> \in {nm \in FileNames \X FileNames : nm[1] # nm[2]}}

\* rel_path of the observer's events: known folders, an unknown folder and
\* a file directly in the root (no '/')
UpdatePaths ==
    {<<f>> \o n : f \in {"pub", "sec", "tmp"}, n \in FileNames} \cup {<<"a.txt">>}

AccessIdle ==
    access = [pc |-> "idle", user_id |-> "", folder |-> 0, index |-> 0,
              authorized_paths |-> <<>>, tables |-> {}, history |-> <<>>]

\* access(user_id) is called: get_authorized_paths starts with an empty list
StartAccess(user_id) ==
    /\ access.pc = "idle"
    /\ access' = [access EXCEPT !.pc = "iterating", !.user_id = user_id, !.folder = 1,
                                !.index = 0, !.authorized_paths = <<>>,
                                !.tables = {folder_structure}]
    /\ UNCHANGED <<folder_structure, ingest, chunker, rpc, agent, scratch>>

\* One step of the loops of get_authorized_paths: the list iterator of the
\* current folder yields the element at its index, if the list as it is now
\* has one, else the outer loop moves to the next allowed folder or returns
IterateAccess ==
    LET allowed_folders == folder_permissions(access.user_id)
    IN  /\ access.pc = "iterating"
        /\ IF access.folder > Len(allowed_folders)
           THEN access' = [access EXCEPT !.pc = "returned"]
           ELSE LET folder == allowed_folders[access.folder]
                    files == IF folder \in DOMAIN folder_structure
                             THEN folder_structure[folder] ELSE <<>>
                IN  IF access.index < Len(files)
                    THEN access' = [access EXCEPT
                                       !.index = @ + 1,
                                       !.authorized_paths =
                                           Append(@, <<folder>> \o files[access.index + 1])]
                    ELSE access' = [access EXCEPT !.folder = @ + 1, !.index = 0]
        /\ UNCHANGED <<folder_structure, ingest, chunker, rpc, agent, scratch>>

\* The access server takes the next request
FinishAccess ==
    /\ access.pc = "returned"
    /\ access' = [access EXCEPT !.pc = "idle", !.tables = {}]
    /\ UNCHANGED <<folder_structure, ingest, chunker, rpc, agent, scratch>>

\* on_created / on_deleted of the observer thread: update_file_structure
update_structure(file_path, operation) ==
    LET after == update_file_structure(folder_structure, file_path, operation)
    IN  /\ Len(access.history) < MaxUpdates
        /\ folder_structure' = after
        /\ access' = [access EXCEPT
                         !.tables = IF access.pc = "idle" THEN @ ELSE @ \cup {after},
                         !.history = Append(@, [file_path |-> file_path,
                                                operation |-> operation,
                                                before |-> folder_structure,
                                                after |-> after])]
        /\ UNCHANGED <<ingest, chunker, rpc, agent, scratch>>

-----------------------------------------------------------------------------
(* RAGAgent.process (RAGside/agent.py) *)

\* "fast" stands for any mode the table does not name
Modes == {"normal", "deep", "deeper", "fast"}

\* _get_max_iterations
_get_max_iterations(mode) ==
    CASE mode = "normal" -> 1
      [] mode = "deep" -> 3
      [] mode = "deeper" -> 5
      [] OTHER -> 3

\* What FileRetriever.search_chunks returns: an empty list or a list of
\* dicts {text, file_name}, the 'no documents' placeholder among them
SearchResults ==
    {<<>>,
     <<[type |-> "dict", text |-> "no documents", file_name |-> ""]>>,
     <<[type |-> "dict", text |-> "t1", file_name |-> "a.txt"],
       [type |-> "dict", text |-> "t2", file_name |-> "b.txt"]>>}

\* What search_chunks returns to a user whose allow-list is pathlist: [] when
\* the list is empty, else whatever the embedding, the index and the file
\* fetch give
SearchOutcomes(pathlist) == IF pathlist = <<>> THEN {<<>>} ELSE SearchResults

\* "\n".join(items): defined for str items only, TypeError for anything else
JoinRaises(items) == \E i \in 1..Len(items) : items[i].type # "str"

\* What structured_LLM and json.loads give: a result with continue_iterate
\* and search_query, or an exception
LLMResults ==
    {[raised |-> FALSE, continue_iterate |-> c, search_query |-> q] :
         c \in BOOLEAN, q \in {"", "q2"}}
        \cup {[raised |-> TRUE, continue_iterate |-> FALSE, search_query |-> ""]}

\* The JSON bodies POSTed to /api/chat: message, mode and user_id, each of
\* which may be absent
ChatRequests ==
    [message : {"<absent>", "", " ", "q"}, mode : {"<absent>", "normal", "deeper", "fast"},
     user_id : {"<absent>", " ", "guest"}]

\* What process has returned: nothing yet, the llm_output of the LLM, or the
\* degraded answer with its piece of the accumulated context
NoResponse == [kind |-> "none", context |-> <<>>]

\* http: the status code of the chat endpoint's response, 0 while there is none;
\* llm_raised: the try block of the last pass ended in its except clause
AgentIdle ==
    agent = [pc |-> "idle", mode |-> "", user_id |-> "", max_iterations |-> 0,
             iteration |-> 0, user_input |-> "", current_query |-> "",
             last_search_results |-> <<>>, accumulated_context |-> <<>>,
             llm_calls |-> 0, llm_raised |-> FALSE, response |-> NoResponse,
             via |-> "", http |-> 0]

\* The locals of process at its first line, for an agent built with mode
\* and user_id
Called(mode, user_id, user_input, via) ==
    [pc |-> "loop", mode |-> mode, user_id |-> user_id,
     max_iterations |-> _get_max_iterations(mode), iteration |-> 0,
     user_input |-> user_input, current_query |-> user_input,
     last_search_results |-> <<>>, accumulated_context |-> <<>>,
     llm_calls |-> 0, llm_raised |-> FALSE, response |-> NoResponse,
     via |-> via, http |-> 0]

\* RAGAgent(mode, user_id).process(user_input) is called
process(mode, user_id, user_input) ==
    /\ agent.pc = "idle"
    /\ agent' = Called(mode, user_id, user_input, "direct")
    /\ UNCHANGED <<folder_structure, ingest, chunker, rpc, access, scratch>>

\* chat() up to its call of agent.process: 400 for a missing or blank
\* message, else the mode and the user_id are defaulted
chat(data) ==
    LET mode == IF data.mode \in {"normal", "deep", "deeper"} THEN data.mode ELSE "deep"
        user_id == IF data.user_id \in {"<absent>", " "} THEN "anonymous" ELSE data.user_id
    IN  /\ agent.pc = "idle"
        /\ agent' = IF data.message \in {"<absent>", "", " "}
                    THEN [agent EXCEPT !.pc = "responded", !.via = "chat", !.http = 400]
                    ELSE Called(mode, user_id, data.message, "chat")
        /\ UNCHANGED <<folder_structure, ingest, chunker, rpc, access, scratch>>

\* chat() after agent.process: jsonify of the response, or the except
\* clause when process raised
chat_response ==
    /\ agent.via = "chat"
    /\ agent.pc \in {"returned", "raised", "fell_through"}
    /\ agent' = [agent EXCEPT !.pc = "responded",
                              !.http = IF agent.pc = "raised" THEN 500 ELSE 200]
    /\ UNCHANGED <<folder_structure, ingest, chunker, rpc, access, scratch>>

\* An except clause that goes back to the user's question before the next
\* pass (not the code's: the unchanged-query claim must fail with it)
except_restarting_query(entered, is_final_iteration) ==
    IF is_final_iteration
    THEN [entered EXCEPT !.pc = "returned",
                         !.response = [kind |-> "degraded",
                                       context |-> Slice(entered.accumulated_context, 0, 500)]]
    ELSE [entered EXCEPT !.pc = "loop", !.current_query = entered.user_input]

\* The except clause of process, for the locals the try block was entered
\* with: the degraded answer with accumulated_context[:500] on the final
\* pass, continue otherwise
except_clause(entered, is_final_iteration) ==
    IF is_final_iteration
    THEN [entered EXCEPT !.pc = "returned",
                         !.response = [kind |-> "degraded",
                                       context |-> Slice(entered.accumulated_context, 0, 500)]]
    ELSE [entered EXCEPT !.pc = "loop"]

\* One pass through the while statement of process: the loop test, one
\* search, the join of its results onto the accumulated context (one element
\* for the header of the pass, one for each joined item), one LLM call and
\* what follows it
Iterate(search_results, result) ==
    LET iteration == agent.iteration + 1
        is_final_iteration == iteration = agent.max_iterations
        query == IF result.search_query = "" THEN agent.user_input ELSE result.search_query
        searched == [agent EXCEPT !.iteration = iteration,
                                  !.last_search_results = search_results]
        entered == [searched EXCEPT
                       !.accumulated_context =
                           IF search_results = <<>> THEN @
                           ELSE @ \o <<[type |-> "header", iteration |-> iteration]>>
                                  \o search_results,
                       !.llm_calls = @ + 1,
                       !.llm_raised = result.raised]
    IN  /\ agent.pc = "loop"
        /\ agent' =
             IF ~(agent.iteration < agent.max_iterations)
             THEN [agent EXCEPT !.pc = "fell_through",
                                !.response = [kind |-> "unexpected", context |-> <<>>]]
             ELSE IF search_results # <<>> /\ JoinRaises(search_results)
             THEN [searched EXCEPT !.pc = "raised"]
             ELSE IF result.raised
             THEN except_clause(entered, is_final_iteration)
             ELSE IF agent.mode = "normal" \/ is_final_iteration \/ ~result.continue_iterate
             THEN [entered EXCEPT !.pc = "returned",
                                  !.response = [kind |-> "llm_output", context |-> <<>>]]
             ELSE [entered EXCEPT !.current_query = query]
        /\ UNCHANGED <<folder_structure, ingest, chunker, rpc, access, scratch>>

-----------------------------------------------------------------------------
(* The system *)

\* The pipeline's sockets, the collection, the search and the mailbox after
\* construction
IngestIdle ==
    /\ repo_head = [p \in Paths |-> NoFile]
    /\ clock = 0
    /\ watcher_push = <<>>
    /\ pre_push = <<>>
    /\ post = Returned(NoMessage, 0, <<>>, 0, EmptyBag)
    /\ collection = EmptyBag
    /\ processed = [p \in Paths |-> -1]
    /\ search = SearchReturned("", <<>>, {})
    /\ mailbox_clock = 0
    /\ user_messages = <<>>
    /\ post_log = <<>>
    /\ fetched = [user_id |-> "", messages |-> <<>>, at |-> 0]

\* The pipeline, the search and the mailbox after construction
IngestInit == folder_structure = InitFolderStructure /\ IngestIdle

Init == IngestInit /\ ChunkerIdle /\ RpcIdle /\ AccessIdle /\ AgentIdle /\ ScratchIdle

Disks == Contents \cup {NoFile}

\* The LLM's answers for the windows of the message at the head of pre_push
Responses ==
    IF pre_push = <<>> THEN {<<>>}
    ELSE [1..Len(Windows(recv_json(pre_push).content)) -> LLMAnswers]

\* The vector counts the embedding service may return for that message
HeadVectorCounts(responses) ==
    IF pre_push = <<>> \/ ~Truthy(recv_json(pre_push).content) THEN {0}
    ELSE VectorCounts(Len(_chunk_content(recv_json(pre_push).content, responses)))

\* The rows a query may pick, the disk it may find and the texts it may return
Picks == SUBSET search_data(collection, search.pathlist)

\* The watcher's handlers, with git and open() working
WatcherNext ==
    \/ \E p \in Paths, d \in Disks : on_created(p, d, TRUE, TRUE)
    \/ \E p \in Paths, d \in Disks : on_modified(p, d, TRUE, TRUE, TRUE)
    \/ \E p \in Paths, d \in Disks : on_deleted(p, d, TRUE)

PreprocessorNext == \E ok \in BOOLEAN : _listen_file_changes(ok)

PostprocessorNext ==
    \/ \E rs \in Responses, e \in BOOLEAN :
          \E n \in HeadVectorCounts(rs) : handle_create(rs, e, n)
    \/ \E d, sm, e \in BOOLEAN, rs \in Responses :
          \E n \in HeadVectorCounts(rs) : handle_update(d, sm, rs, e, n)
    \/ \E d \in BOOLEAN : handle_delete(d)
    \/ \E a \in BOOLEAN : _upload_embeddings(a)
    \/ \E sm \in BOOLEAN : FinishHandler(sm)

SearchNext ==
    \/ \E u \in Users \cup {"nobody"}, e, o \in BOOLEAN : search_chunks(u, e, o)
    \/ \E db \in BOOLEAN, picked \in Picks, disk \in [Paths -> Disks] :
          \E selected \in SUBSET ChunkData({r.metadata : r \in picked}, disk) :
              _search_similar_chunks(db, picked, disk, selected)

MailboxNext ==
    \/ \E ul \in UserLists, m \in Payloads : Post(ul, m)
    \/ \E u \in Users \cup {"nobody"} : Fetch(u)

\* The ingestion pipeline
Next == WatcherNext \/ PreprocessorNext \/ PostprocessorNext

Spec == Init /\ [][Next]_vars

\* The ingestion pipeline with searches running beside it
NextSearch == Next \/ SearchNext

SpecSearch == Init /\ [][NextSearch]_vars

\* The mailbox
SpecMailbox == Init /\ [][MailboxNext]_vars

\* Files that are empty or hold only whitespace, and one ordinary file
BlankTexts == {<<>>, <<" ">>, <<" ", "\n">>}

BlankDisks == BlankTexts \cup {TextAB}

\* The watcher's handlers over such files, with git and open() working
WatcherNextBlank ==
    \/ \E p \in Paths, d \in BlankDisks : on_created(p, d, TRUE, TRUE)
    \/ \E p \in Paths, d \in BlankDisks : on_modified(p, d, TRUE, TRUE, TRUE)
    \/ \E p \in Paths, d \in BlankDisks : on_deleted(p, d, TRUE)

\* The ingestion pipeline fed with empty and blank files
NextBlank == WatcherNextBlank \/ PreprocessorNext \/ PostprocessorNext

SpecBlank == Init /\ [][NextBlank]_vars

\* The watcher alone, with git diff, git commit and open() working or not
NextWatcher ==
    \/ \E p \in Paths, d \in Disks, g, r \in BOOLEAN : on_created(p, d, g, r)
    \/ \E p \in Paths, d \in Disks, df, g, r \in BOOLEAN : on_modified(p, d, df, g, r)
    \/ \E p \in Paths, d \in Disks, g \in BOOLEAN : on_deleted(p, d, g)

SpecWatcher == Init /\ [][NextWatcher]_vars

\* The sentence-index chunker, over all texts, options and plans
InitSentence == IngestInit /\ SentenceChunkCalled /\ RpcIdle /\ AccessIdle /\ AgentIdle /\ ScratchIdle

NextSentence == \E plan \in Plans : llm_guided_sentence_chunk(plan) \/ repair_reprompt(plan)

SpecSentence == InitSentence /\ [][NextSentence]_vars

\* The coarse windowing loop, over all contents, window sizes and overlaps;
\* the thread that runs the loop keeps running it
InitWindows == IngestInit /\ WindowsCalled /\ RpcIdle /\ AccessIdle /\ AgentIdle /\ ScratchIdle

NextWindows == split_with_overlap

SpecWindows == InitWindows /\ [][NextWindows]_vars /\ WF_vars(NextWindows)

\* The plan reader, over all texts with a sentence and all reported plans
InitPlan == IngestInit /\ PlanCalled /\ RpcIdle /\ AccessIdle /\ AgentIdle /\ ScratchIdle

NextPlan == chunks_from_plan

SpecPlan == InitPlan /\ [][NextPlan]_vars

\* The rule-based chunker, over all texts and group sizes
InitFallback == IngestInit /\ FallbackCalled /\ RpcIdle /\ AccessIdle /\ AgentIdle /\ ScratchIdle

NextFallback == fallback_rule_based_chunks

SpecFallback == InitFallback /\ [][NextFallback]_vars

\* The request-reply sockets and their clients
NextRpc ==
    \/ \E c \in Channels, cl \in Clients :
           \E b \in IF c = "access" THEN AccessBodies ELSE FileBodies : Request(c, cl, b)
    \/ \E c \in Channels, w, e \in BOOLEAN : Serve(c, w, e)

SpecRpc == Init /\ [][NextRpc]_vars

\* The two extracting threads of the preprocessor and its clock
NextScratch ==
    \/ Tick
    \/ \E t \in Threads, p \in Paths : extract_name(t, p)
    \/ \E t \in Threads : extract_write(t)
    \/ \E t \in Threads, ok \in BOOLEAN : extract_read(t, ok)
    \/ \E t \in Threads : extract_exists(t)
    \/ \E t \in Threads : extract_remove(t)

SpecScratch == Init /\ [][NextScratch]_vars

\* The two persistent REQ sockets, with peers that answer in time or not
InitReq == IngestInit /\ ChunkerIdle /\ ReqIdle /\ AccessIdle /\ AgentIdle /\ ScratchIdle

NextReq ==
    \/ \E p \in Paths, a \in BOOLEAN : _request_file_from_watcher(p, a)
    \/ \E p \in Paths, a \in BOOLEAN : get_file_content(p, a)

SpecReq == InitReq /\ [][NextReq]_vars

\* The access oracle's two threads, from every table the updates can have
\* left behind
InitAccess ==
    /\ folder_structure \in [{"pub", "sec"} -> FolderLists]
    /\ IngestIdle /\ ChunkerIdle /\ RpcIdle /\ AccessIdle /\ AgentIdle /\ ScratchIdle

NextAccess ==
    \/ \E u \in Users : StartAccess(u)
    \/ IterateAccess
    \/ FinishAccess
    \/ \E p \in UpdatePaths, op \in {"create", "delete"} : update_structure(p, op)

SpecAccess == InitAccess /\ [][NextAccess]_vars

\* One call of the agent, with every search result and LLM result
NextAgent ==
    \/ \E m \in Modes, u \in Users \cup {"anonymous"}, q \in {"q", "q1"} : process(m, u, q)
    \/ \E data \in ChatRequests : chat(data)
    \/ \E sr \in SearchOutcomes(get_authorized_paths(folder_structure, agent.user_id)),
          r \in LLMResults : Iterate(sr, r)
    \/ chat_response

SpecAgent == Init /\ [][NextAgent]_vars

\* The chunker's boundary resolution, over all contents and candidate lists
InitChunker == IngestInit /\ ChunkerCalled /\ RpcIdle /\ AccessIdle /\ AgentIdle /\ ScratchIdle

NextChunker == split_by_end_sentences

SpecChunker == InitChunker /\ [][NextChunker]_vars

-----------------------------------------------------------------------------
(* Properties *)

\* process_message has returned from the handler of an event of this type
HandlerReturned(event_type) ==
    post.pc = "idle" /\ post.message.event_type = event_type

\* The rows the current event's chunks make, as _upload_embeddings offers
\* them to the index
EventRows ==
    {Row(post.message.file_path, post.embeddings[k].offset.char_start,
         post.embeddings[k].offset.char_end, post.embeddings[k].embedding) :
        k \in 1..Len(post.embeddings)}

\* The index's rows of the current event's path
CurrentRows == RowsOf(collection, post.message.file_path)

\* The current event met no fault: a vector for every chunk, every row accepted
FaultFree ==
    /\ Len(post.embeddings) = post.n_chunks
    /\ post.success_count = Len(post.embeddings)

\* C1: every chunk a search returns (the "no documents" placeholder aside)
\* comes from a file that is in the allow-list the oracle returned for that
\* search.
C1_SearchWithinAllowList ==
    \A r \in search.result : r.file_name # "" => InSeq(r.file_path, search.pathlist)

\* C1's case: a search returned a chunk while the index held rows of a file
\* outside its allow-list
C1_HitBesideForbiddenRows ==
    /\ search.pc = "idle"
    /\ \E r \in search.result : r.file_name # ""
    /\ \E row \in BagToSet(collection) : ~InSeq(row.metadata.file_path, search.pathlist)

\* C2: once a delete event of a path has been processed, the index holds no
\* row of that path, whatever was processed for the path before.
C2_DeleteLeavesNoRecord ==
    HandlerReturned("delete") => CurrentRows = EmptyBag

\* C2's case: a delete was processed for a path that had rows
C2_DeleteOfIndexedPath ==
    HandlerReturned("delete") /\ post.before # EmptyBag

\* C3: once an update event of a path has been processed, the index holds for
\* the path exactly the rows of the chunks of the event's new content, and no
\* row of an earlier generation.  Stated for the updates whose embedding
\* call returned a vector for every chunk.
C3_UpdateLeavesNewGeneration ==
    (HandlerReturned("update") /\ Len(post.embeddings) = post.n_chunks)
        => CurrentRows = SetToBag(EventRows)

\* C4: for two events of the same path, processing the first and then the
\* second leaves for the path what the second alone leaves on an empty
\* index: the rows of its chunks, none for a delete.  Stated for the second
\* events that came with their text and met no fault.
C4_LastEventDecides ==
    (/\ post.pc = "idle"
     /\ post.message.event_type \in EventTypes
     /\ post.message.event_type = "delete" \/ Truthy(post.message.content)
     /\ FaultFree)
        => CurrentRows = SetToBag(EventRows)

\* C5: the postprocessor takes up the events of a path in the order the
\* watcher emitted them: per path, the timestamps of the events it takes up
\* never go back.
C5_PerPathOrder ==
    [][\A p \in Paths : processed'[p] >= processed[p]]_vars

\* C5's case: the postprocessor has taken up a later event of a path whose
\* earlier event had left rows in the index
C5_SecondEventOfPath ==
    /\ post.message.event_type \in EventTypes
    /\ post.message.timestamp >= 1
    /\ processed[post.message.file_path] = post.message.timestamp
    /\ post.before # EmptyBag

\* C6: a search that reads the index while an update of a file it may read
\* is being processed finds the whole old set of the file's rows or the
\* whole new set, never none and never a part.  Stated for the updates that
\* met no fault so far.
C6_SearchSeesWholeGeneration ==
    (/\ search.pc = "query"
     /\ post.pc = "upload"
     /\ post.message.event_type = "update"
     /\ InSeq(post.message.file_path, search.pathlist)
     /\ Len(post.embeddings) = post.n_chunks
     /\ post.success_count = post.i)
        => CurrentRows \in {post.before, SetToBag(EventRows)}

\* C7: when the index rejects a write of an update, the update is given up
\* and the rows of the previous generation remain.
C7_RejectedUpdateKeepsOldRows ==
    (/\ HandlerReturned("update")
     /\ post.success_count < Len(post.embeddings)
     /\ post.before # EmptyBag)
        => CurrentRows = post.before

\* C8: processing a create event whose rows the index already holds for the
\* path (the state the same create left when it was processed before)
\* changes nothing: the path has the same rows as before, each once.
C8_RepeatedCreateChangesNothing ==
    (/\ HandlerReturned("create")
     /\ EventRows # {}
     /\ EventRows \subseteq BagToSet(post.before))
        => CurrentRows = post.before

\* C8's case: a later create, all of its rows accepted, for a path that held
\* exactly the rows of this create
C8_CreateProcessedAgain ==
    /\ HandlerReturned("create")
    /\ post.message.timestamp >= 1
    /\ EventRows # {}
    /\ FaultFree
    /\ post.before = SetToBag(EventRows)

\* C9: when an event has been processed and the channels are empty, every
\* user who liked the file's folder, the author aside, has a notification
\* in the mailbox.
C9_LikedUsersNotified ==
    (/\ post.pc = "idle"
     /\ post.message.event_type \in EventTypes
     /\ watcher_push = <<>>
     /\ pre_push = <<>>)
        => \A k \in 1..Len(get_folder_liked_users(post.message.file_path[1])) :
              LET u == get_folder_liked_users(post.message.file_path[1])[k]
              IN  u # post.message.user_id => get_user_messages(user_messages, u) # <<>>

\* The message_data of the posts of `log` that name user u, in the order of
\* the posts; the k-th post carries timestamp `first + k - 1`
RECURSIVE PostedTo(_, _, _)
PostedTo(log, u, first) ==
    IF log = <<>> THEN <<>>
    ELSE (IF InSeq(u, Head(log).user_list)
          THEN <<[message |-> Head(log).message, timestamp |-> first]>>
          ELSE <<>>) \o PostedTo(Tail(log), u, first + 1)

\* C10: the mailbox keeps the messages of each user in the order they were
\* posted, and a fetch returns them so, oldest first, without removing or
\* reordering any.
C10_MailboxFifo ==
    /\ \A u \in Users \cup {"nobody"} :
          get_user_messages(user_messages, u) = PostedTo(post_log, u, 0)
    /\ fetched.messages
          = PostedTo(SubSeq(post_log, 1, fetched.at), fetched.user_id, 0)

\* C10's case: a fetch returned two different messages, and the mailbox
\* still holds them
C10_FetchedTwo ==
    /\ Len(fetched.messages) = 2
    /\ fetched.messages[1].message # fetched.messages[2].message
    /\ get_user_messages(user_messages, fetched.user_id) = fetched.messages

\* The chunks are ordered and do not overlap
Ordered(chunks) ==
    \A k \in 1..Len(chunks) :
        /\ chunks[k].char_end > chunks[k].char_start
        /\ chunks[k].chunk_index = k - 1
        /\ k < Len(chunks) => chunks[k].char_end <= chunks[k + 1].char_start

C12_TextIsSlice ==
    chunker.pc = "returned"
        => \A k \in 1..Len(chunker.chunks) :
              chunker.chunks[k].text
                  = Slice(chunker.content, chunker.chunks[k].char_start,
                          chunker.chunks[k].char_end)

\* C13: for a document whose content is empty or only whitespace the
\* postprocessor makes no chunk, inserts no row, and the handler returns.
\* Stated for the creates the postprocessor has taken up.
C13_BlankContentHandled ==
    (/\ post.message.event_type = "create"
     /\ post.message.content \in BlankTexts)
        => /\ post.n_chunks = 0
           /\ post.embeddings = <<>>
           /\ CurrentRows = post.before
           /\ post.pc # "crashed"

\* C14: the create event of an empty file is forwarded with content "" and
\* not as a failed extraction.  Stated for the first event of a run, whose
\* file is the one the watcher committed.
C14_EmptyFileForwardedEmpty ==
    \A k \in 1..Len(pre_push) :
        (/\ clock = 1
         /\ pre_push[k].event_type = "create"
         /\ repo_head[pre_push[k].file_path] = <<>>)
            => /\ pre_push[k].content = <<>>
               /\ pre_push[k].status = "processed"

\* C15: on each request-reply channel every received request is answered
\* once, to the client that sent it, with status error when it fails, and
\* never left unanswered.
C15_EveryRequestAnswered ==
    \A k \in 1..Len(rpc.log) :
        /\ rpc.log[k].reply.status \in {"success", "error"}
        /\ rpc.log[k].to = rpc.log[k].client

\* C16: the raw-file fetch never returns a file outside the watched root,
\* nor one whose extension is not allowed.
C16_FetchStaysInRoot ==
    \A k \in 1..Len(rpc.log) :
        (rpc.log[k].channel = "router" /\ rpc.log[k].reply.status = "success")
            => /\ IsUnder(rpc.log[k].reply.served, watch_folder)
               /\ _is_target_file(rpc.log[k].reply.served)

\* C17: an authorized(u) query that runs while update_structure runs returns
\* the allow-list of the table before the update or of the table after it,
\* never a list that matches neither.
C17_QueryAtomic ==
    access.pc = "returned"
        => \E fs \in access.tables :
               access.authorized_paths = get_authorized_paths(fs, access.user_id)

\* An update of the folder index that the index did not need: a create of a
\* listed name or a delete of an unlisted one
Redundant(h) ==
    /\ Len(h.file_path) >= 2
    /\ Head(h.file_path) \in DOMAIN h.before
    /\ (h.operation = "create") = InSeq(Tail(h.file_path), h.before[Head(h.file_path)])

\* C18: update_structure is idempotent: a create of a path already listed or
\* a delete of a path not listed leaves the folder index unchanged, and the
\* same operation applied twice in a row leaves the index it left the first
\* time.
C18_UpdateIdempotent ==
    \A k \in 1..Len(access.history) :
        LET h == access.history[k]
        IN  /\ Redundant(h) => h.after = h.before
            /\ (k > 1 /\ access.history[k - 1].file_path = h.file_path
                       /\ access.history[k - 1].operation = h.operation)
                   => h.after = access.history[k - 1].after

\* The same create applied twice to a known folder that did not list the name
C18_SameCreateTwice ==
    /\ Len(access.history) = 2
    /\ access.history[1].operation = "create"
    /\ access.history[2].operation = "create"
    /\ access.history[1].file_path = access.history[2].file_path
    /\ access.history[1].after # access.history[1].before

\* update_structure(p, create) directly followed by update_structure(p, delete)
CreateThenDelete(k) ==
    /\ k + 1 <= Len(access.history)
    /\ access.history[k].operation = "create"
    /\ access.history[k + 1].operation = "delete"
    /\ access.history[k].file_path = access.history[k + 1].file_path

\* C19 as stated: for every path p and every prior folder index, also one
\* that lists p already, create p followed by delete p restores the prior
\* index exactly.
C19_CreateDeleteRestoresAlways ==
    \A k \in 1..Len(access.history) :
        CreateThenDelete(k) => access.history[k + 1].after = access.history[k].before

\* C19, amended: for every path p that the prior folder index does not list,
\* create p followed by delete p restores the prior index exactly.
C19_CreateDeleteRestores ==
    \A k \in 1..Len(access.history) :
        (CreateThenDelete(k) /\ ~Redundant(access.history[k]))
            => access.history[k + 1].after = access.history[k].before

\* A create that changed the index, followed by the delete of the same path
C19_AddedThenDeleted ==
    /\ CreateThenDelete(1)
    /\ access.history[1].after # access.history[1].before
    /\ access.history[1].before[Head(access.history[1].file_path)] # <<>>

\* C20: process ends after at most max_iterations search-and-LLM rounds and
\* always by a return from inside the loop, never by the trailing return
\* (nor by an exception); in normal mode it returns after exactly one round.
C20_ProcessReturnsInLoop ==
    /\ agent.pc \in {"idle", "loop", "returned"}
    /\ agent.iteration <= agent.max_iterations
    /\ (agent.pc = "returned" /\ agent.mode = "normal") => agent.iteration = 1

\* C21: when the user's allow-list is empty the agent returns an explicit
\* no-access message without consulting the LLM and without raising.
C21_EmptyAllowListNoLLM ==
    get_authorized_paths(folder_structure, agent.user_id) = <<>>
        => (agent.llm_calls = 0 /\ agent.pc # "raised")

\* C22: the chat endpoint answers a well-formed request with HTTP 200, also
\* when the agent, the retrieval or the model fails, and with a non-200
\* status only a malformed request.
C22_WellFormedGets200 ==
    (agent.pc = "responded" /\ agent.user_input # "") => agent.http = 200

\* The message a step of the watcher pushed
Pushed == watcher_push'[Len(watcher_push')]

\* C23: in handling one mutation the watcher computes the diff (updates
\* only) against the committed tip as it is before the commit, then attempts
\* the commit, then transmits; the event's committed flag tells whether the
\* commit was recorded.
C23_DiffCommitSend ==
    [][Len(watcher_push') > Len(watcher_push) =>
          LET m == Pushed
              p == m.file_path
          IN  /\ m.diff_type # "None" =>
                     (m.event_type = "update" /\ m.diff_content[1] = repo_head[p])
              /\ ~m.git_committed => repo_head' = repo_head
              /\ (m.git_committed /\ m.event_type = "delete") => repo_head'[p] = NoFile
              /\ (m.git_committed /\ m.file_content # None)
                     => repo_head'[p] = m.file_content]_vars

\* An update was pushed with its diff against the previous commit and with
\* the committed flag set
C23_UpdateWithDiffCommitted ==
    \E k \in 1..Len(watcher_push) :
        /\ watcher_push[k].event_type = "update"
        /\ watcher_push[k].diff_type = "modification"
        /\ watcher_push[k].git_committed
        /\ repo_head[watcher_push[k].file_path] = watcher_push[k].file_content

\* C24: every detected create, update or delete of a supported file pushes
\* at least one event, also when the file vanishes before it is read.  A
\* step that changes the folder index is a detected create or delete.
C24_EveryDetectionPushes ==
    [][folder_structure' # folder_structure
          => Len(watcher_push') > Len(watcher_push)]_vars

\* C25: for every file event the preprocessor receives it forwards exactly
\* one document, for the oldest event waiting and behind the documents
\* already forwarded: status deleted and no content for a delete, status
\* processed with the extracted content when the extraction of a create or
\* update gives text, status extraction_failed and no content otherwise.
C25_OneDocumentPerEvent ==
    [][Len(watcher_push') < Len(watcher_push) =>
          LET m == Head(watcher_push)
              d == pre_push'[Len(pre_push')]
          IN  /\ watcher_push' = Tail(watcher_push)
              /\ pre_push' = Append(pre_push, d)
              /\ d.event_type = m.event_type
              /\ d.file_path = m.file_path
              /\ d.timestamp = m.timestamp
              /\ d.status = IF m.event_type = "delete" THEN "deleted"
                            ELSE IF d.content # None THEN "processed"
                            ELSE "extraction_failed"
              /\ d.content \in {None, m.file_content}
              /\ m.event_type = "delete" => d.content = None]_vars

\* A document whose extraction failed was forwarded, and behind it the
\* document of the next event, extracted
C25_FailureThenSuccess ==
    /\ Len(pre_push) = 2
    /\ pre_push[1].status = "extraction_failed"
    /\ pre_push[2].status = "processed"
    /\ pre_push[1].timestamp < pre_push[2].timestamp

\* C26: an embedding-service error while processing one event fails only
\* that file: the postprocessor keeps running and processes the events that
\* arrive afterwards.
C26_EmbeddingErrorNotFatal ==
    ~(post.pc = "crashed" /\ post.cause = "Embedding")

\* C27: when the embedding service returns a number of vectors different
\* from the number of chunks of a file, processing of that file fails and no
\* embedding record of that file is inserted.
C27_VectorCountMismatchInsertsNothing ==
    (post.pc \in {"upload", "idle"} /\ post.message.event_type \in {"create", "update"}
        /\ Len(post.embeddings) # post.n_chunks)
        => (post.success_count = 0 /\ CurrentRows = post.before)

\* C29: content that is not blank and holds no sentence terminator is chunked
\* into exactly one chunk with the interval [0, len(content)), whatever the
\* LLM answers.
C29_NoTerminatorOneChunk ==
    (/\ chunker.pc = "returned"
     /\ Strip(chunker.content) # <<>>
     /\ ~InSeq(".", chunker.content))
        => /\ Len(chunker.chunks) = 1
           /\ chunker.chunks[1].char_start = 0
           /\ chunker.chunks[1].char_end = Len(chunker.content)

\* C28: in the sentence-index chunking variant, for any plan the LLM returns,
\* the chunks have pairwise disjoint [char_start, char_end) intervals and
\* chunk_index increases with char_start.
C28_PlanChunksDisjoint ==
    (chunker.pc = "returned" /\ chunker.used_strategy \in {"llm", "llm_retry"})
        => \A j, k \in 1..Len(chunker.chunks) :
               j < k => /\ chunker.chunks[j].chunk_index < chunker.chunks[k].chunk_index
                        /\ chunker.chunks[j].char_start < chunker.chunks[k].char_start
                        /\ chunker.chunks[j].char_end <= chunker.chunks[k].char_start

\* The LLM calls of one invocation: one per plan it was given
LLMCalls == Len(chunker.yielded)

\* C30: llm_guided_sentence_chunk calls the LLM at most twice: the repair
\* reprompt is issued at most once and only when the first response yields
\* no usable chunk, and the rule-based fallback runs only when every
\* response it got (both, with the reprompt) yields no usable chunk.
C30_AtMostOneRepair ==
    /\ LLMCalls <= 2
    /\ chunker.pc = "retry" => (LLMCalls = 1 /\ chunker.yielded[1] = <<>>)
    /\ LLMCalls = 2 => chunker.yielded[1] = <<>>
    /\ (chunker.pc = "returned" /\ chunker.used_strategy = "fallback_rule")
           => /\ \A k \in 1..LLMCalls : chunker.yielded[k] = <<>>
              /\ LLMCalls = IF chunker.retry_on_fail THEN 2 ELSE 1

\* Both answers gave no usable chunk and the rule-based fallback made the
\* chunks
C30_FallbackAfterTwoCalls ==
    /\ chunker.pc = "returned"
    /\ chunker.used_strategy = "fallback_rule"
    /\ LLMCalls = 2
    /\ chunker.chunks # <<>>

C32_IndexConvention ==
    (chunker.pc = "returned" /\ "plan" \in DOMAIN chunker) =>
        LET plan == chunker.plan
            n == Len(split_sentences_ko_en(chunker.text))
            reported == UNION {{plan[j].first_sentence_index, plan[j].last_sentence_index} :
                                  j \in 1..Len(plan)}
            shift == IF \A x \in reported : x >= 1 THEN 1 ELSE 0
        IN  \A k \in 1..Len(plan) :
                LET first == plan[k].first_sentence_index - shift
                    last == plan[k].last_sentence_index - shift
                    a == chunker.dereferenced[k][1]
                    b == chunker.dereferenced[k][2]
                IN  /\ a \in 0..(n - 1) /\ b \in 0..(n - 1) /\ a <= b
                    /\ (first \in 0..(n - 1) /\ last \in 0..(n - 1))
                           => {a, b} = {first, last}

\* C32 witness: a 1-based plan naming both sentences of a two-sentence text,
\* read as sentences 0..1 and giving one chunk
C32_OneBasedShifted ==
    /\ chunker.pc = "returned"
    /\ "plan" \in DOMAIN chunker
    /\ Len(split_sentences_ko_en(chunker.text)) = 2
    /\ chunker.plan = <<[first_sentence_index |-> 1, last_sentence_index |-> 2]>>
    /\ chunker.dereferenced = <<<<0, 1>>>>
    /\ Len(chunker.chunks) = 1

\* The windows of a returned call lie W-O apart from position 0, none longer
\* than W; they cover the content, the last ends at its end, and a content
\* longer than W has two or more
WindowsRight ==
    LET content == chunker.content
        L == Len(content)
        W == chunker.chunk_size
        O == chunker.overlap
        chunks == chunker.chunks
        StartOf(k) == (k - 1) * (W - O)
    IN  /\ \A k \in 1..Len(chunks) :
               /\ chunks[k] = Slice(content, StartOf(k), StartOf(k) + W)
               /\ Len(chunks[k]) \in 1..W
        /\ \A i \in 0..(L - 1) :
               \E k \in 1..Len(chunks) : StartOf(k) <= i /\ i < StartOf(k) + Len(chunks[k])
        /\ L > 0 => StartOf(Len(chunks)) + Len(chunks[Len(chunks)]) = L
        /\ L > W => Len(chunks) >= 2

\* C33: for any content and any window size W > overlap O >= 0 the coarse
\* windowing returns, and its windows start W-O apart, are at most W long,
\* cover every character, end at the end of the content, and number at least
\* two when the content is longer than W.
C33_WindowsTerminateAndCover ==
    /\ <>(chunker.pc = "returned")
    /\ [](chunker.pc = "returned" => WindowsRight)

\* C33 witness: a content longer than the window, a positive overlap, and
\* three or more windows returned
C33_ThreeWindows ==
    /\ chunker.pc = "returned"
    /\ "overlap" \in DOMAIN chunker
    /\ chunker.overlap > 0
    /\ Len(chunker.content) > chunker.chunk_size
    /\ Len(chunker.chunks) >= 3

\* The pass taken in this step ended in the except clause of process
LLMFailed == agent'.llm_calls = agent.llm_calls + 1 /\ agent'.llm_raised

\* C34: when the LLM's output of a pass cannot be obtained or parsed, a pass
\* that is not the final one is followed by the next pass with the same search
\* query, and the final pass returns the degraded answer, which holds the first
\* 500 characters at most of the accumulated context.
C34_LLMFailureDegrades ==
    [][LLMFailed =>
          IF agent'.iteration = agent.max_iterations
          THEN /\ agent'.pc = "returned"
               /\ agent'.response.kind = "degraded"
               /\ Len(agent'.response.context) <= 500
               /\ agent'.response.context =
                      SubSeq(agent'.accumulated_context, 1, Len(agent'.response.context))
          ELSE /\ agent'.pc = "loop"
               /\ agent'.current_query = agent.current_query
               /\ agent'.response = NoResponse]_vars

\* C34 witness: the LLM gave a follow-up query in the first pass, failed in a
\* later pass that kept the query, and failed in the final pass, which returned
\* the degraded answer
C34_DegradedAfterRetry ==
    /\ agent.pc = "returned"
    /\ agent.response.kind = "degraded"
    /\ agent.llm_raised
    /\ agent.iteration = 3
    /\ agent.current_query = "q2"

\* C35: in every pass of process the LLM is consulted once after the search,
\* with hits or without; hits are appended to the accumulated context before
\* that, and what earlier passes accumulated is kept.
C35_AlwaysConsult ==
    [][agent'.iteration = agent.iteration + 1 =>
          /\ agent'.llm_calls = agent.llm_calls + 1
          /\ SubSeq(agent'.accumulated_context, 1, Len(agent.accumulated_context))
                 = agent.accumulated_context
          /\ agent'.last_search_results # <<>> =>
                 Len(agent'.accumulated_context) > Len(agent.accumulated_context)]_vars

\* C37: a timeout of one request does not disable the channel: a request made
\* on the same persistent REQ socket after a timed-out one is sent, and is
\* answered when the peer replies in time.
C37_TimeoutKeepsChannel ==
    \A i, j \in 1..Len(rpc.log) :
        (/\ i < j
         /\ rpc.log[i].socket = rpc.log[j].socket
         /\ rpc.log[i].outcome = "timeout"
         /\ rpc.log[j].peer_answers)
            => rpc.log[j].outcome = "answered"

\* The thread is inside _extract_file_content, between naming its scratch
\* file and leaving the finally block
Extracting(t) == scratch.threads[t].pc \in {"named", "written", "finally", "remove"}

\* C36: scratch files are unique to a request and handled by their creator
\* only: two extractions running at the same time never use the same scratch
\* path, no thread reads or removes a scratch file another thread created, and
\* a thread that has left the extraction has left no scratch file of its own.
C36_ScratchFilesPrivate ==
    /\ \A t, u \in Threads :
           (t # u /\ Extracting(t) /\ Extracting(u))
              => scratch.threads[t].temp_path # scratch.threads[u].temp_path
    /\ \A t \in Threads :
           /\ scratch.threads[t].content \in {"", t}
           /\ scratch.threads[t].removed \in {"", t}
    /\ \A tp \in TempPaths :
           scratch.files[tp].creator # "" => Extracting(scratch.files[tp].creator)

\* C38: the text of every hit a search returns is the text of a chunk whose
\* embedding the index holds for the hit's file when the search reads it, in
\* every interleaving of file changes, index updates and searches.
C38_HitTextIsIndexedText ==
    [][(search.pc = "query" /\ search'.pc = "idle") =>
          \A r \in search'.result :
              r.file_name # "" =>
                  \E row \in BagToSet(collection) :
                      /\ row.metadata.file_path = r.file_path
                      /\ row.embedding = r.text]_vars

\* C39: retrieval fails closed: a search whose allow-list is empty (unknown
\* user, oracle error, timeout or communication failure) never gets to query
\* the vector index and returns no hit; the index is only queried under a
\* non-empty path restriction.
C39_FailClosed ==
    /\ search.pc = "query" => search.pathlist # <<>>
    /\ (search.pc = "idle" /\ search.pathlist = <<>>) => search.result = {}

\* C39 witness: the search of an unknown user, whose allow-list is empty, has
\* returned while the index held rows
C39_EmptyAllowListOverRows ==
    /\ search.pc = "idle"
    /\ search.user_id = "nobody"
    /\ search.pathlist = <<>>
    /\ search.result = {}
    /\ collection # EmptyBag

====
